---- MODULE Spec2Model ----
(***************************************************************************)
(* Lead classification and deduplication pipeline of the LinkedIn lead     *)
(* scraper: the weighted keyword scorer (categorizeLead), the title        *)
(* parser, the lead builder (serpResultToLead) and the URL deduplicator    *)
(* (deduplicateLeads) of src/src/lib/categorization.ts.                    *)
(*                                                                         *)
(* JavaScript strings are modelled by TLA+ strings; TLC evaluates Len,     *)
(* SubSeq and \o on them, so substring search, case folding, splitting     *)
(* and trimming are computed character by character.                       *)
(***************************************************************************)
EXTENDS Integers, Sequences, FiniteSets, TLC

VARIABLES
    pc,             \* position of the call being modelled
    title,          \* SerpApiResult.title of the candidate
    snippet,        \* SerpApiResult.snippet of the candidate
    scores,         \* categorizeLead: the local `scores` record
    catResult,      \* categorizeLead: the returned CategorizationResult
    queryCategory,  \* serpResultToLead: the query's declared category
    lead,           \* serpResultToLead: the returned Lead
    leads,          \* deduplicateLeads: the argument list (allLeads)
    unique,         \* deduplicateLeads: the returned list (uniqueLeads)
    name,           \* extractNameFromTitle: the returned name
    headline,       \* extractHeadlineFromTitle: the returned headline
    pieces,         \* number of pieces the title at hand is composed of
    field,          \* escapeCSVField: the argument
    escaped,        \* escapeCSVField: the returned string
    csv,            \* leadsToCSV: the returned string
    displayed,      \* page.tsx: the `leads` state of Home
    delivered,      \* every lead handed to handleLeadsScraped since the last clear
    apiKey,         \* batchScrapeLeads: the apiKey argument; ScraperConfig: `apiKey`
    queries,        \* batchScrapeLeads: the queries argument
    qi,             \* batchScrapeLeads: index of the query the loop is at
    clock,          \* the reading of the clock (Date.now(), milliseconds)
    inFlight,       \* indices of the queries whose fetch has not been answered
    results,        \* the ScrapingResult of every scrapeLinkedInLeads call so far
    errors,         \* batchScrapeLeads: the local `errors`
    totalResults,   \* batchScrapeLeads: the local `totalResults`
    timeline,       \* requests and returns of the calls, with the clock reading
    batchResult,    \* batchScrapeLeads: the returned object
    searchQueries,  \* ScraperConfig: the state `searchQueries`
    customQuery,    \* ScraperConfig: the state `customQuery`
    customCategory, \* ScraperConfig: the state `customCategory`
    configErrors,   \* ScraperConfig: the state `errors`
    status,         \* ScraperConfig: the state `status`
    isLoading       \* page: the state `isLoading`

catVars == <<title, snippet, scores, catResult, queryCategory, lead>>
titleVars == <<name, headline, pieces>>
csvVars == <<field, escaped, csv>>
pageVars == <<displayed, delivered>>
batchVars == <<apiKey, queries, qi, clock, inFlight, results, errors, totalResults,
               timeline, batchResult>>

configVars == <<searchQueries, customQuery, customCategory, configErrors, status,
                isLoading>>

vars == <<pc, catVars, leads, unique, titleVars, csvVars, pageVars, batchVars,
          configVars>>

NoValue == "<none>"

\* the variables of a call that the specification at hand does not make
NoCategorizeCall ==
    /\ title = NoValue /\ snippet = NoValue /\ scores = NoValue
    /\ catResult = NoValue /\ queryCategory = NoValue /\ lead = NoValue

NoTitleCall == name = NoValue /\ headline = NoValue /\ pieces = NoValue

NoCsvCall == field = NoValue /\ escaped = NoValue /\ csv = NoValue

NoPage == displayed = NoValue /\ delivered = NoValue

NoBatch ==
    /\ apiKey = NoValue /\ queries = NoValue /\ qi = NoValue /\ clock = NoValue
    /\ inFlight = NoValue /\ results = NoValue /\ errors = NoValue
    /\ totalResults = NoValue /\ timeline = NoValue /\ batchResult = NoValue

NoConfig ==
    /\ searchQueries = NoValue /\ customQuery = NoValue /\ customCategory = NoValue
    /\ configErrors = NoValue /\ status = NoValue /\ isLoading = NoValue

(***************************************************************************)
(* String primitives of the JavaScript runtime.                            *)
(***************************************************************************)
UpperLetters == "ABCDEFGHIJKLMNOPQRSTUVWXYZ"
LowerLetters == "abcdefghijklmnopqrstuvwxyz"

CharAt(s, i) == SubSeq(s, i, i)

\* String.prototype.substring(from) with a 1-based index
Tail1(s, from) == IF from > Len(s) THEN "" ELSE SubSeq(s, from, Len(s))

\* String.prototype.substring(0, n)
Head1(s, n) == IF n <= 0 THEN "" ELSE SubSeq(s, 1, n)

\* the lower-case letter of every upper-case letter
LowerOf ==
    [c \in {CharAt(UpperLetters, i) : i \in 1..26} |->
        CharAt(LowerLetters, CHOOSE i \in 1..26 : CharAt(UpperLetters, i) = c)]

LowerChar(c) == IF c \in DOMAIN LowerOf THEN LowerOf[c] ELSE c

\* String.prototype.toLowerCase, character by character (by halves, which
\* keeps the evaluation shallow)
RECURSIVE ToLowerCase(_)
ToLowerCase(s) ==
    IF Len(s) = 0 THEN ""
    ELSE IF Len(s) = 1 THEN LowerChar(s)
    ELSE ToLowerCase(SubSeq(s, 1, Len(s) \div 2))
         \o ToLowerCase(SubSeq(s, (Len(s) \div 2) + 1, Len(s)))

\* s.startsWith(k) at 1-based position i
MatchAt(s, k, i) ==
    /\ i >= 1
    /\ i + Len(k) - 1 <= Len(s)
    /\ (Len(k) = 0 \/ SubSeq(s, i, i + Len(k) - 1) = k)

\* does k, of length m > 0, occur in s
OccursIn(s, k, m) == \E i \in 1..(Len(s) - m + 1) : SubSeq(s, i, i + m - 1) = k

\* String.prototype.includes
Includes(s, k) == Len(k) = 0 \/ OccursIn(s, k, Len(k))

\* the least element of a non-empty set of numbers
Least(S) == CHOOSE i \in S : \A j \in S : i <= j

\* String.prototype.indexOf, 1-based, 0 when absent
IndexOf(s, k) ==
    LET hits == {i \in 1..(Len(s) + 1) : MatchAt(s, k, i)}
    IN IF hits = {} THEN 0 ELSE Least(hits)

\* the characters matched by \s and removed by trim()
IsSpace(c) == c \in {" ", "\t", "\n", "\r", "\f"}

RECURSIVE TrimStart(_)
TrimStart(s) ==
    IF Len(s) > 0 /\ IsSpace(CharAt(s, 1)) THEN TrimStart(Tail1(s, 2)) ELSE s

RECURSIVE TrimEnd(_)
TrimEnd(s) ==
    IF Len(s) > 0 /\ IsSpace(CharAt(s, Len(s)))
    THEN TrimEnd(Head1(s, Len(s) - 1))
    ELSE s

\* String.prototype.trim
Trim(s) == TrimEnd(TrimStart(s))

\* String.prototype.split(sep) for a non-empty separator
RECURSIVE Split(_, _)
Split(s, sep) ==
    LET i == IndexOf(s, sep)
    IN IF i = 0 THEN <<s>>
       ELSE <<Head1(s, i - 1)>> \o Split(Tail1(s, i + Len(sep)), sep)

\* Array.prototype.join(sep)
RECURSIVE Join(_, _)
Join(parts, sep) ==
    IF Len(parts) = 0 THEN ""
    ELSE IF Len(parts) = 1 THEN parts[1]
    ELSE parts[1] \o sep \o Join(Tail(parts), sep)

(***************************************************************************)
(* Title parser: extractNameFromTitle / extractHeadlineFromTitle.          *)
(***************************************************************************)
\* does t match ^\s*\|\s*LinkedIn\s*$ (flag i)
IsLinkedInSuffix(t) ==
    LET a == TrimStart(t)
    IN /\ MatchAt(a, "|", 1)
       /\ LET b == TrimStart(Tail1(a, 2))
          IN /\ Len(b) >= 8
             /\ ToLowerCase(Head1(b, 8)) = "linkedin"
             /\ TrimStart(Tail1(b, 9)) = ""

\* StripLinkedInSuffix with the suffix left in place
StripLinkedInSuffixKept(t) == t

\* title.replace(/\s*\|\s*LinkedIn\s*$/i, ''): the leftmost match is removed
StripLinkedInSuffix(t) ==
    LET starts == {i \in 1..Len(t) : IsLinkedInSuffix(Tail1(t, i))}
    IN IF starts = {} THEN t ELSE Head1(t, Least(starts) - 1)

\* extractNameFromTitle returning the whole cleaned title
extractNameFromTitleWhole(t) == Trim(StripLinkedInSuffix(t))

extractNameFromTitle(t) ==
    LET cleaned == StripLinkedInSuffix(t)
        parts == Split(cleaned, " - ")
    IN IF Len(parts) > 0 THEN Trim(parts[1]) ELSE Trim(cleaned)

\* extractHeadlineFromTitle returning the second segment only
extractHeadlineFromTitleSecondPart(t) ==
    LET cleaned == StripLinkedInSuffix(t)
        parts == Split(cleaned, " - ")
    IN IF Len(parts) > 1 THEN Trim(parts[2]) ELSE ""

\* extractHeadlineFromTitle with slice(0) for slice(1)
extractHeadlineFromTitleAllParts(t) ==
    LET cleaned == StripLinkedInSuffix(t)
        parts == Split(cleaned, " - ")
    IN IF Len(parts) > 0 THEN Trim(Join(parts, " - ")) ELSE ""

extractHeadlineFromTitle(t) ==
    LET cleaned == StripLinkedInSuffix(t)
        parts == Split(cleaned, " - ")
    IN IF Len(parts) > 1 THEN Trim(Join(Tail(parts), " - ")) ELSE ""

(***************************************************************************)
(* Category scorer: categorizeLead.                                        *)
(***************************************************************************)
\* Object.entries order of the `scores` record and of CATEGORY_KEYWORDS
CategoryOrder == <<"Kitchen Tenant", "Office Tenant", "Event Client", "Uncategorized">>

LeadCategory == {CategoryOrder[i] : i \in 1..Len(CategoryOrder)}

RealCategories == LeadCategory \ {"Uncategorized"}

Confidences == {"High", "Medium", "Low"}

CATEGORY_KEYWORDS ==
    [c \in LeadCategory |->
        CASE c = "Kitchen Tenant" -> <<
                [keywords |-> <<"catering", "caterer", "catering business", "catering company">>, weight |-> 10],
                [keywords |-> <<"food truck", "mobile food", "food trailer">>, weight |-> 10],
                [keywords |-> <<"ghost kitchen", "virtual kitchen", "cloud kitchen", "delivery kitchen">>, weight |-> 10],
                [keywords |-> <<"private chef", "personal chef", "executive chef">>, weight |-> 8],
                [keywords |-> <<"meal prep", "meal delivery", "healthy meals", "prepared meals">>, weight |-> 8],
                [keywords |-> <<"chef owner", "culinary entrepreneur", "food entrepreneur">>, weight |-> 7],
                [keywords |-> <<"commercial kitchen", "commissary", "shared kitchen">>, weight |-> 9],
                [keywords |-> <<"food production", "food manufacturing">>, weight |-> 6] >>
          [] c = "Office Tenant" -> <<
                [keywords |-> <<"food consultant", "culinary consultant", "restaurant consultant">>, weight |-> 10],
                [keywords |-> <<"food brand", "cpg", "consumer packaged goods">>, weight |-> 10],
                [keywords |-> <<"food startup", "food tech", "foodtech">>, weight |-> 9],
                [keywords |-> <<"restaurant group", "hospitality management">>, weight |-> 7],
                [keywords |-> <<"food marketing", "food branding">>, weight |-> 6],
                [keywords |-> <<"nutrition consultant", "dietitian", "nutritionist">>, weight |-> 5] >>
          [] c = "Event Client" -> <<
                [keywords |-> <<"event planner", "event planning", "event coordinator">>, weight |-> 10],
                [keywords |-> <<"wedding planner", "wedding coordinator", "bridal">>, weight |-> 10],
                [keywords |-> <<"corporate events", "event management", "event producer">>, weight |-> 9],
                [keywords |-> <<"party planner", "celebration", "special events">>, weight |-> 8],
                [keywords |-> <<"venue coordinator", "banquet", "reception">>, weight |-> 7] >>
          [] OTHER -> << >>]

LOCATION_KEYWORDS ==
    << "baltimore", "maryland", "md", "dc", "washington", "dmv",
       "annapolis", "columbia", "silver spring", "bethesda", "rockville",
       "towson", "glen burnie", "dundalk", "essex", "middle river" >>

\* const combinedText = `${title} ${snippet}`.toLowerCase()
CombinedText(t, s) == ToLowerCase(t \o " " \o s)

ZeroScores == [c \in LeadCategory |-> 0]

\* combinedText.includes(keyword.toLowerCase())
KeywordHit(text, keyword) == Includes(text, ToLowerCase(keyword))

\* GroupScore adding the weight once per group, however many entries match
GroupScoreOncePerGroup(text, keywords, weight) ==
    IF \E k \in 1..Len(keywords) : KeywordHit(text, keywords[k]) THEN weight ELSE 0

\* the inner loop over one group's keywords: weight is added per matching entry
RECURSIVE GroupScore(_, _, _)
GroupScore(text, keywords, weight) ==
    IF Len(keywords) = 0 THEN 0
    ELSE (IF KeywordHit(text, Head(keywords)) THEN weight ELSE 0)
         + GroupScore(text, Tail(keywords), weight)

\* the loop over one category's keyword groups
RECURSIVE GroupsScore(_, _)
GroupsScore(text, groups) ==
    IF Len(groups) = 0 THEN 0
    ELSE GroupScore(text, Head(groups).keywords, Head(groups).weight)
         + GroupsScore(text, Tail(groups))

\* the scoring loop; the Uncategorized entry is skipped by `continue`
KeywordScores(text) ==
    [c \in LeadCategory |->
        IF c = "Uncategorized" THEN 0 ELSE GroupsScore(text, CATEGORY_KEYWORDS[c])]

\* hasLocationRelevance with every() for some()
hasLocationRelevanceEvery(text) ==
    \A i \in 1..Len(LOCATION_KEYWORDS) : Includes(text, ToLowerCase(LOCATION_KEYWORDS[i]))

\* LOCATION_KEYWORDS.some(loc => combinedText.includes(loc.toLowerCase()))
hasLocationRelevance(text) ==
    \E i \in 1..Len(LOCATION_KEYWORDS) : Includes(text, ToLowerCase(LOCATION_KEYWORDS[i]))

\* Object.entries(scores).filter(([cat]) => cat !== 'Uncategorized')
RealEntries(sc) ==
    SelectSeq([i \in 1..Len(CategoryOrder) |-> <<CategoryOrder[i], sc[CategoryOrder[i]]>>],
              LAMBDA e : e[1] # "Uncategorized")

\* InsertByScoreDesc of a sort that is not stable: e goes in front of the
\* entries of equal score
RECURSIVE InsertByScoreDescTiesFirst(_, _)
InsertByScoreDescTiesFirst(e, sorted) ==
    IF Len(sorted) = 0 THEN <<e>>
    ELSE IF Head(sorted)[2] > e[2]
         THEN <<Head(sorted)>> \o InsertByScoreDescTiesFirst(e, Tail(sorted))
         ELSE <<e>> \o sorted

\* one insertion of the stable sort with comparator (a, b) => b - a:
\* e goes behind every entry whose score is not smaller
RECURSIVE InsertByScoreDesc(_, _)
InsertByScoreDesc(e, sorted) ==
    IF Len(sorted) = 0 THEN <<e>>
    ELSE IF Head(sorted)[2] >= e[2]
         THEN <<Head(sorted)>> \o InsertByScoreDesc(e, Tail(sorted))
         ELSE <<e>> \o sorted

\* Array.prototype.sort(([, a], [, b]) => b - a), which is stable
RECURSIVE SortByScoreDesc(_)
SortByScoreDesc(entries) ==
    IF Len(entries) = 0 THEN << >>
    ELSE InsertByScoreDesc(entries[Len(entries)],
                           SortByScoreDesc(SubSeq(entries, 1, Len(entries) - 1)))

\* LocationBonus adding 3 for every location token that occurs
LocationBonusPerToken(sc, text) ==
    LET sorted == SortByScoreDesc(RealEntries(sc))
        found == Cardinality({i \in 1..Len(LOCATION_KEYWORDS) :
                                 Includes(text, ToLowerCase(LOCATION_KEYWORDS[i]))})
    IN IF found > 0 /\ Len(sorted) > 0 /\ sc[sorted[1][1]] > 0
       THEN [sc EXCEPT ![sorted[1][1]] = @ + 3 * found]
       ELSE sc

\* LocationBonus without the test that the highest score is greater than 0
LocationBonusUnguarded(sc, text) ==
    IF hasLocationRelevance(text)
    THEN LET sorted == SortByScoreDesc(RealEntries(sc))
         IN IF Len(sorted) > 0
            THEN [sc EXCEPT ![sorted[1][1]] = @ + 3]
            ELSE sc
    ELSE sc

\* LocationBonus with a bonus of 2
LocationBonusOfTwo(sc, text) ==
    IF hasLocationRelevance(text)
    THEN LET sorted == SortByScoreDesc(RealEntries(sc))
         IN IF Len(sorted) > 0 /\ sc[sorted[1][1]] > 0
            THEN [sc EXCEPT ![sorted[1][1]] = @ + 2]
            ELSE sc
    ELSE sc

\* the location block: the highest scoring category gets 3 if its score is > 0
LocationBonus(sc, text) ==
    IF hasLocationRelevance(text)
    THEN LET sorted == SortByScoreDesc(RealEntries(sc))
         IN IF Len(sorted) > 0 /\ sc[sorted[1][1]] > 0
            THEN [sc EXCEPT ![sorted[1][1]] = @ + 3]
            ELSE sc
    ELSE sc

\* Classify without the comparison with the runner-up
ClassifyIgnoresRunnerUp(sc) ==
    LET sortedCategories == SortByScoreDesc(RealEntries(sc))
        topCategory == sortedCategories[1][1]
        topScore == sortedCategories[1][2]
    IN IF topScore = 0
       THEN [category |-> "Uncategorized", confidence |-> "Low", scores |-> sc]
       ELSE IF topScore >= 15
       THEN [category |-> topCategory, confidence |-> "High", scores |-> sc]
       ELSE IF topScore >= 8
       THEN [category |-> topCategory, confidence |-> "Medium", scores |-> sc]
       ELSE [category |-> topCategory, confidence |-> "Low", scores |-> sc]

\* the decision table; topScore > secondScore * 1.5 is compared on doubled
\* integers, which is exact for the integer scores
Classify(sc) ==
    LET sortedCategories == SortByScoreDesc(RealEntries(sc))
        top == IF Len(sortedCategories) >= 1 THEN sortedCategories[1] ELSE <<"Uncategorized", 0>>
        second == IF Len(sortedCategories) >= 2 THEN sortedCategories[2] ELSE <<"", 0>>
        topCategory == top[1]
        topScore == top[2]
        secondScore == second[2]
    IN IF topScore = 0
       THEN [category |-> "Uncategorized", confidence |-> "Low", scores |-> sc]
       ELSE IF topScore >= 15 /\ 2 * topScore > 3 * secondScore
       THEN [category |-> topCategory, confidence |-> "High", scores |-> sc]
       ELSE IF topScore >= 8
       THEN [category |-> topCategory, confidence |-> "Medium", scores |-> sc]
       ELSE [category |-> topCategory, confidence |-> "Low", scores |-> sc]

\* the element of a singleton set
Only(S) == CHOOSE x \in S : TRUE

\* the body of categorizeLead on the combined text: the scoring loop, the
\* location block and the decision table in turn (each value computed once)
CategorizeText(combinedText) ==
    Only({ Classify(boosted) :
             boosted \in { LocationBonus(sc, combinedText) :
                             sc \in {KeywordScores(combinedText)} } })

categorizeLead(t, s) == CategorizeText(CombinedText(t, s))

(***************************************************************************)
(* Lead builder: serpResultToLead.                                         *)
(***************************************************************************)
\* FinalCategory letting the query's category win whenever it is a real one
FinalCategoryPrefersQuery(category, qCategory) ==
    IF qCategory # "Uncategorized" THEN qCategory ELSE category

\* the fallback: the query's category replaces an Uncategorized result
FinalCategory(category, qCategory) ==
    IF category = "Uncategorized" THEN qCategory ELSE category

\* FinalConfidence giving the fallback category a confidence of its own
FinalConfidenceMediumOnFallback(category, confidence) ==
    IF category = "Uncategorized" THEN "Medium" ELSE confidence

FinalConfidence(category, confidence) ==
    IF category = "Uncategorized" THEN "Low" ELSE confidence

\* the returned object literal; r is the result of categorizeLead
LeadOf(result, r, qCategory, queryLabel, now) ==
    [ id         |-> "lead-" \o ToString(now) \o "-" \o ToString(result.position),
      name       |-> extractNameFromTitle(result.title),
      headline   |-> extractHeadlineFromTitle(result.title),
      profileUrl |-> result.link,
      snippet    |-> result.snippet,
      category   |-> FinalCategory(r.category, qCategory),
      confidence |-> FinalConfidence(r.category, r.confidence),
      source     |-> queryLabel,
      scrapedAt  |-> now ]

\* result: [title, snippet, link, position]; now: the reading of the clock
serpResultToLead(result, qCategory, queryLabel, now) ==
    LeadOf(result, categorizeLead(result.title, result.snippet),
           qCategory, queryLabel, now)

(***************************************************************************)
(* Deduplicator: deduplicateLeads.  The Map `seen` is a sequence of        *)
(* <<key, value>> entries in insertion order, as a JavaScript Map iterates.*)
(***************************************************************************)
\* NormalizeUrl without the case folding
NormalizeUrlCaseSensitive(url) ==
    IF Len(url) > 0 /\ CharAt(url, Len(url)) = "/"
    THEN Head1(url, Len(url) - 1)
    ELSE url

\* lead.profileUrl.toLowerCase().replace(/\/$/, '')
NormalizeUrl(url) ==
    LET lower == ToLowerCase(url)
    IN IF Len(lower) > 0 /\ CharAt(lower, Len(lower)) = "/"
       THEN Head1(lower, Len(lower) - 1)
       ELSE lower

confidenceOrder == [High |-> 3, Medium |-> 2, Low |-> 1]

\* Map.prototype.has
MapHas(seen, key) == \E i \in 1..Len(seen) : seen[i][1] = key

\* Map.prototype.get of a key that is present
MapGet(seen, key) == seen[CHOOSE i \in 1..Len(seen) : seen[i][1] = key][2]

\* MapSet as delete-then-set: a replaced key moves to the end
MapSetMovesKey(seen, key, value) ==
    Append(SelectSeq(seen, LAMBDA e : e[1] # key), <<key, value>>)

\* Map.prototype.set: a present key keeps its position, a new key goes last
MapSet(seen, key, value) ==
    IF MapHas(seen, key)
    THEN [i \in 1..Len(seen) |-> IF seen[i][1] = key THEN <<key, value>> ELSE seen[i]]
    ELSE Append(seen, <<key, value>>)

\* MapValues in reverse insertion order
MapValuesReversed(seen) == [i \in 1..Len(seen) |-> seen[Len(seen) + 1 - i][2]]

\* Array.from(seen.values())
MapValues(seen) == [i \in 1..Len(seen) |-> seen[i][2]]

\* DedupStep keeping the lead under its normalized URL
DedupStepStoresNormalized(seen, l) ==
    LET normalizedUrl == NormalizeUrl(l.profileUrl)
        stored == [l EXCEPT !.profileUrl = normalizedUrl]
    IN IF ~MapHas(seen, normalizedUrl)
       THEN MapSet(seen, normalizedUrl, stored)
       ELSE LET existing == MapGet(seen, normalizedUrl)
            IN IF confidenceOrder[l.confidence] > confidenceOrder[existing.confidence]
               THEN MapSet(seen, normalizedUrl, stored)
               ELSE seen

\* DedupStep replacing on equal confidence too (>= for >)
DedupStepReplacesOnEqual(seen, l) ==
    LET normalizedUrl == NormalizeUrl(l.profileUrl)
    IN IF ~MapHas(seen, normalizedUrl)
       THEN MapSet(seen, normalizedUrl, l)
       ELSE LET existing == MapGet(seen, normalizedUrl)
            IN IF confidenceOrder[l.confidence] >= confidenceOrder[existing.confidence]
               THEN MapSet(seen, normalizedUrl, l)
               ELSE seen

\* DedupStep without the comparison of confidences: the first lead stays
DedupStepKeepsFirst(seen, l) ==
    LET normalizedUrl == NormalizeUrl(l.profileUrl)
    IN IF ~MapHas(seen, normalizedUrl)
       THEN MapSet(seen, normalizedUrl, l)
       ELSE seen

\* the body of the loop over leads
DedupStep(seen, l) ==
    LET normalizedUrl == NormalizeUrl(l.profileUrl)
    IN IF ~MapHas(seen, normalizedUrl)
       THEN MapSet(seen, normalizedUrl, l)
       ELSE LET existing == MapGet(seen, normalizedUrl)
            IN IF confidenceOrder[l.confidence] > confidenceOrder[existing.confidence]
               THEN MapSet(seen, normalizedUrl, l)
               ELSE seen

RECURSIVE DedupLoop(_, _)
DedupLoop(seen, ls) ==
    IF Len(ls) = 0 THEN seen
    ELSE DedupLoop(DedupStep(seen, Head(ls)), Tail(ls))

deduplicateLeads(ls) == MapValues(DedupLoop(<< >>, ls))

(***************************************************************************)
(* Server action of src/src/app/actions/scrape.ts: scrapeLinkedInLeads     *)
(* (input validation, the SerpAPI request, the conversion of its answer)   *)
(* and the accumulation step of batchScrapeLeads.                          *)
(***************************************************************************)
HexDigits ==
    {"0", "1", "2", "3", "4", "5", "6", "7", "8", "9",
     "a", "b", "c", "d", "e", "f", "A", "B", "C", "D", "E", "F"}

\* /^[a-f0-9]{64}$/i.test(apiKey.trim())
validateApiKey(key) ==
    LET trimmed == Trim(key)
    IN /\ Len(trimmed) = 64
       /\ \A i \in 1..64 : CharAt(trimmed, i) \in HexDigits

\* a ScrapingResult of a failed call
Failure(query, error) ==
    [success |-> FALSE, leads |-> << >>, error |-> error, totalResults |-> 0,
     query |-> query]

\* ValidationError testing the query before the format of the key
ValidationErrorQueryFirst(key, query) ==
    IF key = "" \/ Trim(key) = "" THEN "API key is required"
    ELSE IF query = "" \/ Trim(query) = "" THEN "Search query is required"
    ELSE IF ~validateApiKey(key)
         THEN "Invalid API key format. SerpAPI keys are 64 character hex strings."
    ELSE NoValue

\* the input validation: the error of the first check that fails, if any
ValidationError(key, query) ==
    IF key = "" \/ Trim(key) = "" THEN "API key is required"
    ELSE IF ~validateApiKey(key)
         THEN "Invalid API key format. SerpAPI keys are 64 character hex strings."
    ELSE IF query = "" \/ Trim(query) = "" THEN "Search query is required"
    ELSE NoValue

\* result.link?.includes('linkedin.com/in/')
IsProfileLink(result) ==
    result.link # NoValue /\ Includes(result.link, "linkedin.com/in/")

\* organicResults.filter(...)
FilterProfiles(organic) == SelectSeq(organic, IsProfileLink)

\* { ...result, position: index }
WithPosition(result, index) == [result EXCEPT !.position = index]

\* the reading of Date.now() when the lead of the given index is built: the
\* map starts at reading t and the clock ticks `tick` times before the
\* second element
ReadingAt(t, tick, index) == IF index > 0 THEN t + tick ELSE t

\* linkedInResults.map((result, index) => serpResultToLead(...)); cat gives
\* the value categorizeLead returns for a result
MapToLeads(linkedInResults, cat, qCategory, queryLabel, t, tick) ==
    [i \in 1..Len(linkedInResults) |->
        LeadOf(WithPosition(linkedInResults[i], i - 1), cat[linkedInResults[i]],
               qCategory, queryLabel, ReadingAt(t, tick, i - 1))]

\* scrapeLinkedInLeads from the answer of the fetch on: resp is what fetch
\* delivered (an HTTP error, a JSON body, or an exception)
ScrapeOutcome(resp, cat, q, t, tick) ==
    IF resp.kind = "throw" THEN Failure(q.query, "Network error: " \o resp.message)
    ELSE IF resp.kind = "http" THEN
        IF resp.status = 401
        THEN Failure(q.query, "Invalid API key. Please check your SerpAPI key.")
        ELSE IF resp.status = 429
        THEN Failure(q.query, "Rate limit exceeded. Please wait and try again.")
        ELSE Failure(q.query, "SerpAPI error (" \o ToString(resp.status) \o "): " \o resp.text)
    ELSE IF resp.error # NoValue /\ resp.error # ""
    THEN Failure(q.query, "SerpAPI error: " \o resp.error)
    ELSE LET organicResults ==
                 IF resp.organic_results = NoValue THEN << >> ELSE resp.organic_results
             linkedInResults == FilterProfiles(organicResults)
         IN [success      |-> TRUE,
             leads        |-> MapToLeads(linkedInResults, cat, q.category, q.label, t, tick),
             error        |-> NoValue,
             totalResults |-> Len(linkedInResults),
             query        |-> q.query]

\* Accumulate without the label in front of the error
AccumulateUnlabelled(acc, result, label) ==
    IF result.success
    THEN [acc EXCEPT !.allLeads = acc.allLeads \o result.leads,
                     !.totalResults = acc.totalResults + result.totalResults]
    ELSE IF result.error # NoValue /\ result.error # ""
    THEN [acc EXCEPT !.errors = Append(acc.errors, result.error)]
    ELSE acc

\* batchScrapeLeads, the if / else-if after the call returned
Accumulate(acc, result, label) ==
    IF result.success
    THEN [acc EXCEPT !.allLeads = acc.allLeads \o result.leads,
                     !.totalResults = acc.totalResults + result.totalResults]
    ELSE IF result.error # NoValue /\ result.error # ""
    THEN [acc EXCEPT !.errors = Append(acc.errors, label \o ": " \o result.error)]
    ELSE acc

\* the pacing delay of batchScrapeLeads, in milliseconds
DelayMs == 500

\* AfterDelay with no pacing delay
AfterNoDelay(t) == t

\* the reading of the clock when setTimeout(resolve, DelayMs), set at reading
\* t, fires: the earliest reading at which the loop can resume
AfterDelay(t) == t + DelayMs

(***************************************************************************)
(* CSV serializer: escapeCSVField and leadsToCSV of csv-export.ts          *)
(* (src/unnamed/part_001).                                                 *)
(***************************************************************************)
\* a field that is null / undefined at run time
Null == "<null>"
Undefined == NoValue

Quote == "\""

\* stringValue.replace(/"/g, '""')
RECURSIVE DoubleQuotes(_)
DoubleQuotes(s) ==
    IF Len(s) = 0 THEN ""
    ELSE IF Len(s) = 1 THEN (IF s = Quote THEN Quote \o Quote ELSE s)
    ELSE LET h == Len(s) \div 2
         IN DoubleQuotes(Head1(s, h)) \o DoubleQuotes(Tail1(s, h + 1))

\* escapeCSVField without the test for a carriage return
escapeCSVFieldIgnoresCR(value) ==
    IF value = Null \/ value = Undefined THEN ""
    ELSE IF Includes(value, ",") \/ Includes(value, Quote) \/ Includes(value, "\n")
         THEN Quote \o DoubleQuotes(value) \o Quote
         ELSE value

escapeCSVField(value) ==
    IF value = Null \/ value = Undefined THEN ""
    ELSE LET stringValue == value
             needsQuoting == \/ Includes(stringValue, ",")
                             \/ Includes(stringValue, Quote)
                             \/ Includes(stringValue, "\n")
                             \/ Includes(stringValue, "\r")
         IN IF needsQuoting
            THEN Quote \o DoubleQuotes(stringValue) \o Quote
            ELSE stringValue

headers ==
    << "Name", "Headline", "Category", "Confidence", "Profile URL", "Snippet",
       "Source Query", "Scraped At" >>

\* the `row` array of one lead
RowOf(l) ==
    << l.name, l.headline, l.category, l.confidence, l.profileUrl, l.snippet,
       l.source, l.scrapedAt >>

\* row.map(escapeCSVField).join(',')
EscapedRow(row) == Join([i \in 1..Len(row) |-> escapeCSVField(row[i])], ",")

\* leadsToCSV writing the header row for an empty list too
leadsToCSVAlwaysHeader(ls) ==
    Join(<<EscapedRow(headers)>> \o [i \in 1..Len(ls) |-> EscapedRow(RowOf(ls[i]))], "\n")

leadsToCSV(ls) ==
    IF Len(ls) = 0 THEN ""
    ELSE LET headerRow == EscapedRow(headers)
             dataRows == [i \in 1..Len(ls) |-> EscapedRow(RowOf(ls[i]))]
         IN Join(<<headerRow>> \o dataRows, "\n")

(***************************************************************************)
(* Inputs.                                                                 *)
(***************************************************************************)
\* the largest number of phrases a snippet is composed of
MaxPhrases == 4

\* the largest number of leads handed to deduplicateLeads
MaxLeads == 4

Titles ==
    { "Jane Doe - Owner, Baltimore Catering Co | LinkedIn",
      "Ann Roe",
      "Pat Kim - Food Consultant, CPG Food Brand, FoodTech, DC | LinkedIn",
      "Lee Fox - Wedding Planner - DC | LinkedIn" }

PhrasePool ==
    << "Food Truck",
       "ghost kitchen",
       "caterer",
       "catering business",
       "CPG",
       "dietitian",
       "event planner",
       "banquet",
       "Maryland",
       "DMV" >>

\* the phrases of PhrasePool with index in S, in pool order, joined by blanks
RECURSIVE PhrasesFrom(_, _)
PhrasesFrom(S, i) ==
    IF i > Len(PhrasePool) THEN << >>
    ELSE (IF i \in S THEN <<PhrasePool[i]>> ELSE << >>) \o PhrasesFrom(S, i + 1)

Snippets ==
    { "catering owner serving Baltimore weddings",
      "food truck caterer, event planner and wedding planner" } \cup
    { Join(PhrasesFrom(S, 1), " ") :
        S \in {T \in SUBSET (1..Len(PhrasePool)) : Cardinality(T) <= MaxPhrases} }

UrlPool == {"x/", "X", "x//", "y"}

\* a lead as serpResultToLead builds it; position also tells the inputs apart
MkLead(position, url, confidence) ==
    [ id         |-> "lead-17-" \o ToString(position),
      name       |-> "Ann Roe",
      headline   |-> "",
      profileUrl |-> url,
      snippet    |-> "",
      category   |-> "Kitchen Tenant",
      confidence |-> confidence,
      source     |-> "Caterers",
      scrapedAt  |-> 17 ]

\* the candidate handed to serpResultToLead
Candidate(t, s) ==
    [title |-> t, snippet |-> s, link |-> "https://linkedin.com/in/janedoe/", position |-> 0]

(***************************************************************************)
(* serpResultToLead on one candidate, step by step: the call of            *)
(* categorizeLead (scoring loop, location block, decision table) and then  *)
(* the construction of the Lead from its result.                           *)
(***************************************************************************)
InitCategorize ==
    /\ pc = "categorize"
    /\ title \in Titles
    /\ snippet \in Snippets
    /\ scores = ZeroScores
    /\ catResult = NoValue
    /\ queryCategory = NoValue
    /\ lead = NoValue
    /\ leads = << >>
    /\ unique = << >>
    /\ NoTitleCall /\ NoCsvCall /\ NoPage /\ NoBatch
    /\ NoConfig

\* categorizeLead, the scoring loop
ScoreKeywords ==
    /\ pc = "categorize"
    /\ scores' = KeywordScores(CombinedText(title, snippet))
    /\ pc' = "scored"
    /\ UNCHANGED <<title, snippet, catResult, queryCategory, lead, leads, unique, titleVars, csvVars, pageVars, batchVars, configVars>>

\* categorizeLead, the location block
ApplyLocationBonus ==
    /\ pc = "scored"
    /\ scores' = LocationBonus(scores, CombinedText(title, snippet))
    /\ pc' = "boosted"
    /\ UNCHANGED <<title, snippet, catResult, queryCategory, lead, leads, unique, titleVars, csvVars, pageVars, batchVars, configVars>>

\* categorizeLead, the decision table and the return
DetermineCategory ==
    /\ pc = "boosted"
    /\ catResult' = Classify(scores)
    /\ pc' = "classified"
    /\ UNCHANGED <<title, snippet, scores, queryCategory, lead, leads, unique, titleVars, csvVars, pageVars, batchVars, configVars>>

\* serpResultToLead, the fallback and the returned Lead, for a query of any
\* declared category; catResult is the value categorizeLead returned
BuildLead ==
    /\ pc = "classified"
    /\ \E q \in LeadCategory :
        /\ queryCategory' = q
        /\ lead' = LeadOf(Candidate(title, snippet), catResult, q, "Caterers", 17)
    /\ pc' = "built"
    /\ UNCHANGED <<title, snippet, scores, catResult, leads, unique, titleVars, csvVars, pageVars, batchVars, configVars>>

NextCategorize ==
    \/ ScoreKeywords
    \/ ApplyLocationBonus
    \/ DetermineCategory
    \/ BuildLead

SpecCategorize == InitCategorize /\ [][NextCategorize]_vars

(***************************************************************************)
(* Deduplicating a list of leads: the caller collects the leads of its     *)
(* queries in allLeads and hands the list to deduplicateLeads.             *)
(***************************************************************************)
InitDedup ==
    /\ pc = "collect"
    /\ title = NoValue
    /\ snippet = NoValue
    /\ scores = ZeroScores
    /\ catResult = NoValue
    /\ queryCategory = NoValue
    /\ lead = NoValue
    /\ leads = << >>
    /\ unique = << >>
    /\ NoTitleCall /\ NoCsvCall /\ NoPage /\ NoBatch
    /\ NoConfig

\* allLeads.push(...): one more lead, of any URL and confidence
CollectLead ==
    /\ pc = "collect"
    /\ Len(leads) < MaxLeads
    /\ \E url \in UrlPool, confidence \in Confidences :
        leads' = Append(leads, MkLead(Len(leads), url, confidence))
    /\ UNCHANGED <<pc, title, snippet, scores, catResult, queryCategory, lead, unique, titleVars, csvVars, pageVars, batchVars, configVars>>

\* const uniqueLeads = deduplicateLeads(allLeads)
DeduplicateLeads ==
    /\ pc = "collect"
    /\ unique' = deduplicateLeads(leads)
    /\ pc' = "deduped"
    /\ UNCHANGED <<title, snippet, scores, catResult, queryCategory, lead, leads, titleVars, csvVars, pageVars, batchVars, configVars>>

NextDedup ==
    \/ CollectLead
    \/ DeduplicateLeads

SpecDedup == InitDedup /\ [][NextDedup]_vars

(***************************************************************************)
(* deduplicateLeads on a list and on a rearrangement of it: the list is    *)
(* deduplicated, then rearranged, and `unique` keeps the result for the    *)
(* original order.                                                         *)
(***************************************************************************)
\* the largest number of leads of a rearranged list
MaxPermuted == 3

\* the permutations of 1..n
Orderings(n) == {p \in [1..n -> 1..n] : \A i, j \in 1..n : p[i] = p[j] => i = j}

\* ls rearranged by the permutation p
Permuted(ls, p) == [i \in 1..Len(ls) |-> ls[p[i]]]

InitPermute ==
    /\ pc = "collect"
    /\ \E n \in 0..MaxPermuted :
        \E url \in [1..n -> UrlPool], confidence \in [1..n -> Confidences] :
            leads = [i \in 1..n |-> MkLead(i - 1, url[i], confidence[i])]
    /\ unique = << >>
    /\ title = NoValue
    /\ snippet = NoValue
    /\ scores = ZeroScores
    /\ catResult = NoValue
    /\ queryCategory = NoValue
    /\ lead = NoValue
    /\ NoTitleCall /\ NoCsvCall /\ NoPage /\ NoBatch
    /\ NoConfig

\* the caller hands the same leads on in another order
PermuteLeads ==
    /\ pc = "deduped"
    /\ \E p \in Orderings(Len(leads)) : leads' = Permuted(leads, p)
    /\ pc' = "permuted"
    /\ UNCHANGED <<title, snippet, scores, catResult, queryCategory, lead, unique,
                   titleVars, csvVars, pageVars, batchVars, configVars>>

NextPermute ==
    \/ DeduplicateLeads
    \/ PermuteLeads

SpecPermute == InitPermute /\ [][NextPermute]_vars

(***************************************************************************)
(* batchScrapeLeads: one call, from its loop over the queries to the       *)
(* returned object.  The positions are the awaits of the function: the     *)
(* fetch of scrapeLinkedInLeads, the return of that call, and the timer.   *)
(***************************************************************************)
\* the largest number of queries in one batch
MaxQueries == 2

ValidKey == "0123456789abcdef0123456789ABCDEF0123456789abcdef0123456789ABCDEF"

ApiKeys == {ValidKey, "serpapi-key", " "}

\* two of DEFAULT_SEARCH_QUERIES and a query whose text is blank
QueryPool ==
    { [query    |-> "\"catering owner\" OR \"catering business\" Baltimore OR Maryland site:linkedin.com/in/",
       label    |-> "Catering Owners",
       category |-> "Kitchen Tenant"],
      [query    |-> "\"event planner\" OR \"event coordinator\" Baltimore OR Maryland site:linkedin.com/in/",
       label    |-> "Event Planners",
       category |-> "Event Client"],
      [query    |-> "  ",
       label    |-> "Custom: ...",
       category |-> "Office Tenant"] }

JaneDoe ==
    [title    |-> "Jane Doe - Owner, Baltimore Catering Co | LinkedIn",
     snippet  |-> "catering owner serving Baltimore weddings",
     link     |-> "https://www.linkedin.com/in/janedoe",
     position |-> 1]

\* the same profile under another spelling of its URL, with a bare title
JaneDoeAgain ==
    [title    |-> "Jane Doe | LinkedIn",
     snippet  |-> "caterer",
     link     |-> "https://www.linkedin.com/in/JaneDoe/",
     position |-> 2]

CompanyPage ==
    [title    |-> "Baltimore Catering Co | LinkedIn",
     snippet  |-> "catering business",
     link     |-> "https://www.linkedin.com/company/baltimore-catering",
     position |-> 3]

NoLink ==
    [title |-> "Ann Roe", snippet |-> "", link |-> NoValue, position |-> 4]

SerpResults == {JaneDoe, JaneDoeAgain, CompanyPage, NoLink}

\* what categorizeLead returns for each result of SerpResults
Categorized == [r \in SerpResults |-> categorizeLead(r.title, r.snippet)]

\* what the fetch of one query can deliver
Responses ==
    { [kind |-> "throw", message |-> "fetch failed"],
      [kind |-> "http", status |-> 401, text |-> "Unauthorized"],
      [kind |-> "http", status |-> 429, text |-> "Too Many Requests"],
      [kind |-> "http", status |-> 500, text |-> "Internal Server Error"],
      [kind |-> "json", error |-> "Your account has run out of searches.",
       organic_results |-> NoValue],
      [kind |-> "json", error |-> NoValue, organic_results |-> NoValue],
      [kind |-> "json", error |-> NoValue, organic_results |-> <<JaneDoeAgain>>],
      [kind |-> "json", error |-> NoValue,
       organic_results |-> <<CompanyPage, JaneDoe, NoLink, JaneDoeAgain>>] }

\* milliseconds the clock advances while a fetch is outstanding
Latencies == {0, 1}

\* milliseconds the clock advances between two elements of the map
Ticks == {0, 1}

\* the locals allLeads, errors and totalResults as one record
Locals == [allLeads |-> leads, errors |-> errors, totalResults |-> totalResults]

Event(event, query, at) == [event |-> event, query |-> query, at |-> at]

InitBatch ==
    /\ pc = "loop"
    /\ apiKey \in ApiKeys
    /\ queries \in UNION {[1..n -> QueryPool] : n \in 0..MaxQueries}
    /\ qi = 1
    /\ clock = 0
    /\ inFlight = {}
    /\ results = << >>
    /\ errors = << >>
    /\ totalResults = 0
    /\ timeline = << >>
    /\ batchResult = NoValue
    /\ leads = << >>
    /\ unique = << >>
    /\ NoCategorizeCall /\ NoTitleCall /\ NoCsvCall /\ NoPage
    /\ NoConfig

\* the head of the loop: scrapeLinkedInLeads is called and runs to its first
\* await (the fetch), or returns at once when a validation fails
CallScrape ==
    /\ pc = "loop"
    /\ qi <= Len(queries)
    /\ LET error == ValidationError(apiKey, queries[qi].query)
       IN IF error # NoValue
          THEN /\ results' = Append(results, Failure(queries[qi].query, error))
               /\ timeline' = Append(timeline, Event("return", qi, clock))
               /\ pc' = "returned"
               /\ UNCHANGED inFlight
          ELSE /\ inFlight' = inFlight \cup {qi}
               /\ timeline' = Append(timeline, Event("request", qi, clock))
               /\ pc' = "fetch"
               /\ UNCHANGED results
    /\ UNCHANGED <<apiKey, queries, qi, clock, errors, totalResults, batchResult,
                   leads, unique, catVars, titleVars, csvVars, pageVars, configVars>>

\* the fetch is answered and scrapeLinkedInLeads runs to its return
FetchResponds ==
    /\ pc = "fetch"
    /\ \E resp \in Responses, latency \in Latencies, tick \in Ticks :
        /\ clock' = clock + latency
        /\ results' = Append(results,
                             ScrapeOutcome(resp, Categorized, queries[qi], clock', tick))
        /\ timeline' = Append(timeline, Event("return", qi, clock'))
    /\ inFlight' = inFlight \ {qi}
    /\ pc' = "returned"
    /\ UNCHANGED <<apiKey, queries, qi, errors, totalResults, batchResult,
                   leads, unique, catVars, titleVars, csvVars, pageVars, configVars>>

\* the result of the call is accumulated and the timer is set
AccumulateResult ==
    /\ pc = "returned"
    /\ LET acc == Accumulate(Locals, results[qi], queries[qi].label)
       IN /\ leads' = acc.allLeads
          /\ errors' = acc.errors
          /\ totalResults' = acc.totalResults
    /\ pc' = "delay"
    /\ UNCHANGED <<apiKey, queries, qi, clock, inFlight, results, timeline,
                   batchResult, unique, catVars, titleVars, csvVars, pageVars, configVars>>

\* the timer fires and the loop moves to the next query
DelayElapsed ==
    /\ pc = "delay"
    /\ clock' = AfterDelay(clock)
    /\ qi' = qi + 1
    /\ pc' = "loop"
    /\ UNCHANGED <<apiKey, queries, inFlight, results, errors, totalResults,
                   timeline, batchResult, leads, unique, catVars, titleVars,
                   csvVars, pageVars, configVars>>

\* after the last query: deduplicateLeads and the returned object
ReturnBatch ==
    /\ pc = "loop"
    /\ qi > Len(queries)
    /\ unique' = deduplicateLeads(leads)
    /\ batchResult' = [success      |-> Len(errors) = 0,
                       leads        |-> unique',
                       errors       |-> errors,
                       totalResults |-> totalResults]
    /\ pc' = "done"
    /\ UNCHANGED <<apiKey, queries, qi, clock, inFlight, results, errors,
                   totalResults, timeline, leads, catVars, titleVars, csvVars,
                   pageVars, configVars>>

NextBatch ==
    \/ CallScrape
    \/ FetchResponds
    \/ AccumulateResult
    \/ DelayElapsed
    \/ ReturnBatch

SpecBatch == InitBatch /\ [][NextBatch]_vars

(***************************************************************************)
(* The title parser on titles composed of pieces: serpResultToLead calls   *)
(* extractNameFromTitle and extractHeadlineFromTitle on result.title.      *)
(***************************************************************************)
\* the largest number of pieces a title is composed of
MaxPieces == 4

TitlePieces ==
    {"Al", "Bo", " ", "-", " - ", "|", " | LinkedIn", "LINKEDIN",
     "Lee Fox - Wedding Planner"}

InitTitle ==
    /\ pc = "compose"
    /\ title = ""
    /\ pieces = 0
    /\ name = NoValue
    /\ headline = NoValue
    /\ snippet = NoValue /\ scores = NoValue /\ catResult = NoValue
    /\ queryCategory = NoValue /\ lead = NoValue
    /\ leads = << >>
    /\ unique = << >>
    /\ NoCsvCall /\ NoPage /\ NoBatch
    /\ NoConfig

\* result.title, one more piece of it
AppendPiece ==
    /\ pc = "compose"
    /\ pieces < MaxPieces
    /\ \E p \in TitlePieces : title' = title \o p
    /\ pieces' = pieces + 1
    /\ UNCHANGED <<pc, name, headline, snippet, scores, catResult, queryCategory,
                   lead, leads, unique, csvVars, pageVars, batchVars, configVars>>

\* const name = extractNameFromTitle(result.title);
\* const headline = extractHeadlineFromTitle(result.title)
ParseTitle ==
    /\ pc = "compose"
    /\ name' = extractNameFromTitle(title)
    /\ headline' = extractHeadlineFromTitle(title)
    /\ pc' = "parsed"
    /\ UNCHANGED <<title, pieces, snippet, scores, catResult, queryCategory,
                   lead, leads, unique, csvVars, pageVars, batchVars, configVars>>

NextTitle ==
    \/ AppendPiece
    \/ ParseTitle

SpecTitle == InitTitle /\ [][NextTitle]_vars

(***************************************************************************)
(* escapeCSVField on fields composed of pieces.                            *)
(***************************************************************************)
\* the largest number of pieces appended to a field
MaxFieldPieces == 3

FieldPieces == {"Smith", ",", " ", Quote, "Chef", "\n", "\r"}

FieldSeeds == {"", "Smith, \"Chef", Null, Undefined}

InitEscape ==
    /\ pc = "edit"
    /\ field \in FieldSeeds
    /\ pieces = 0
    /\ escaped = NoValue
    /\ csv = NoValue
    /\ name = NoValue /\ headline = NoValue
    /\ leads = << >>
    /\ unique = << >>
    /\ NoCategorizeCall /\ NoPage /\ NoBatch
    /\ NoConfig

\* the value of a field, one more piece of it
AppendFieldPiece ==
    /\ pc = "edit"
    /\ field \notin {Null, Undefined}
    /\ pieces < MaxFieldPieces
    /\ \E p \in FieldPieces : field' = field \o p
    /\ pieces' = pieces + 1
    /\ UNCHANGED <<pc, escaped, csv, name, headline, leads, unique, catVars,
                   pageVars, batchVars, configVars>>

\* escapeCSVField(value)
EscapeField ==
    /\ pc = "edit"
    /\ escaped' = escapeCSVField(field)
    /\ pc' = "escaped"
    /\ UNCHANGED <<field, pieces, csv, name, headline, leads, unique, catVars,
                   pageVars, batchVars, configVars>>

NextEscape ==
    \/ AppendFieldPiece
    \/ EscapeField

SpecEscape == InitEscape /\ [][NextEscape]_vars

(***************************************************************************)
(* leadsToCSV on lists of leads.                                           *)
(***************************************************************************)
\* the largest number of leads handed to leadsToCSV
MaxRows == 3

CsvLead(leadName, leadHeadline, leadSnippet) ==
    [ id         |-> "lead-17-0",
      name       |-> leadName,
      headline   |-> leadHeadline,
      profileUrl |-> "in/a",
      snippet    |-> leadSnippet,
      category   |-> "Kitchen Tenant",
      confidence |-> "High",
      source     |-> "Caterers",
      scrapedAt  |-> "T17Z" ]

CsvLeads ==
    { CsvLead("Ann Roe", "", "caterer"),
      CsvLead("Smith, \"Chef\"", "Owner", Undefined),
      CsvLead("Al", "Chef,\nOwner", "a\r\nb"),
      CsvLead("Bo", "\"", ",") }

InitCsv ==
    /\ pc = "collect"
    /\ leads = << >>
    /\ csv = NoValue
    /\ field = NoValue
    /\ escaped = NoValue
    /\ unique = << >>
    /\ NoCategorizeCall /\ NoTitleCall /\ NoPage /\ NoBatch
    /\ NoConfig

\* the leads to export, one more of them
AddCsvLead ==
    /\ pc = "collect"
    /\ Len(leads) < MaxRows
    /\ \E l \in CsvLeads : leads' = Append(leads, l)
    /\ UNCHANGED <<pc, csv, field, escaped, unique, catVars, titleVars,
                   pageVars, batchVars, configVars>>

\* leadsToCSV(leads)
ExportCsv ==
    /\ pc = "collect"
    /\ csv' = leadsToCSV(leads)
    /\ pc' = "exported"
    /\ UNCHANGED <<leads, field, escaped, unique, catVars, titleVars, pageVars,
                   batchVars, configVars>>

NextCsv ==
    \/ AddCsvLead
    \/ ExportCsv

SpecCsv == InitCsv /\ [][NextCsv]_vars

(***************************************************************************)
(* The page (src/src/app/page.tsx): the `leads` state of Home, merged by   *)
(* handleLeadsScraped with every list ScraperConfig delivers, and emptied  *)
(* by clearLeads.                                                          *)
(***************************************************************************)
\* handleLeadsScraped is called while fewer leads than this were delivered
MaxDelivered == 2

PageUrls == {"x/", "X", "y"}

\* the body of the loop over allLeads: the first lead of a key stays
PageMergeStep(seen, l) ==
    LET normalizedUrl == NormalizeUrl(l.profileUrl)
    IN IF ~MapHas(seen, normalizedUrl)
       THEN MapSet(seen, normalizedUrl, l)
       ELSE seen

RECURSIVE PageMergeLoop(_, _)
PageMergeLoop(seen, ls) ==
    IF Len(ls) = 0 THEN seen
    ELSE PageMergeLoop(PageMergeStep(seen, Head(ls)), Tail(ls))

\* PageMerge without the Map: the new leads are appended
PageMergeAppends(prev, newLeads) == prev \o newLeads

\* the updater handed to setLeads
PageMerge(prev, newLeads) == MapValues(PageMergeLoop(<< >>, prev \o newLeads))

InitPage ==
    /\ pc = "idle"
    /\ displayed = << >>
    /\ delivered = << >>
    /\ leads = << >>
    /\ unique = << >>
    /\ NoCategorizeCall /\ NoTitleCall /\ NoCsvCall /\ NoBatch
    /\ NoConfig

\* onLeadsScraped(result.leads): result.leads is the nonempty deduplicated
\* list of a batch that collected one or two leads
HandleLeadsScraped ==
    /\ Len(delivered) < MaxDelivered
    /\ \E n \in 1..2 :
        \E url \in [1..n -> PageUrls], confidence \in [1..n -> Confidences] :
            LET newLeads == deduplicateLeads(
                              [i \in 1..n |-> MkLead(Len(delivered) + i, url[i],
                                                     confidence[i])])
            IN /\ displayed' = PageMerge(displayed, newLeads)
               /\ delivered' = delivered \o newLeads
    /\ leads' = << >>                  \* no list is handed to an export
    /\ UNCHANGED <<pc, unique, catVars, titleVars, csvVars, batchVars, configVars>>

\* clearLeads
ClearLeads ==
    /\ displayed' = << >>
    /\ delivered' = << >>
    /\ leads' = << >>
    /\ UNCHANGED <<pc, unique, catVars, titleVars, csvVars, batchVars, configVars>>

(***************************************************************************)
(* LeadsTable (src/src/components/LeadsTable.tsx): the filtered and sorted *)
(* view of the page's leads and the lists its export buttons hand on.      *)
(***************************************************************************)
\* the comparator of result.sort for sortField 'confidence'
CompareConfidence(a, b, sortDirection) ==
    LET comparison == confidenceOrder[a.confidence] - confidenceOrder[b.confidence]
    IN IF sortDirection = "asc" THEN comparison ELSE 0 - comparison

\* one insertion of the stable sort: l goes behind every lead that does not
\* sort after it
RECURSIVE InsertByConfidence(_, _, _)
InsertByConfidence(l, sorted, sortDirection) ==
    IF Len(sorted) = 0 THEN <<l>>
    ELSE IF CompareConfidence(Head(sorted), l, sortDirection) <= 0
         THEN <<Head(sorted)>> \o InsertByConfidence(l, Tail(sorted), sortDirection)
         ELSE <<l>> \o sorted

RECURSIVE SortByConfidence(_, _)
SortByConfidence(ls, sortDirection) ==
    IF Len(ls) = 0 THEN << >>
    ELSE InsertByConfidence(ls[Len(ls)],
                            SortByConfidence(SubSeq(ls, 1, Len(ls) - 1), sortDirection),
                            sortDirection)

\* filteredLeads, with the search box empty and the table sorted by
\* confidence
filteredLeads(ls, categoryFilter, confidenceFilter, sortDirection) ==
    LET byCategory ==
            IF categoryFilter # "all"
            THEN SelectSeq(ls, LAMBDA l : l.category = categoryFilter)
            ELSE ls
        byConfidence ==
            IF confidenceFilter # "all"
            THEN SelectSeq(byCategory, LAMBDA l : l.confidence = confidenceFilter)
            ELSE byCategory
    IN SortByConfidence(byConfidence, sortDirection)

\* handleExportCSV and handleExportToSheets: filteredLeads is handed on
ExportFiltered ==
    /\ \E categoryFilter \in {"all"} \cup LeadCategory,
          confidenceFilter \in {"all"} \cup Confidences,
          sortDirection \in {"asc", "desc"} :
        leads' = filteredLeads(displayed, categoryFilter, confidenceFilter, sortDirection)
    /\ UNCHANGED <<pc, unique, displayed, delivered, catVars, titleVars, csvVars,
                   batchVars, configVars>>

\* handleExportAll: the leads prop is handed on
ExportAll ==
    /\ leads' = displayed
    /\ UNCHANGED <<pc, unique, displayed, delivered, catVars, titleVars, csvVars,
                   batchVars, configVars>>

NextPage ==
    \/ HandleLeadsScraped
    \/ ClearLeads
    \/ ExportFiltered
    \/ ExportAll

SpecPage == InitPage /\ [][NextPage]_vars

(***************************************************************************)
(* One call of scrapeLinkedInLeads, for keys and queries of every shape    *)
(* its validation tells apart.                                             *)
(***************************************************************************)
\* ValidKey between blanks, ValidKey short of a character, ValidKey with a
\* letter that is no hex digit, and the keys of ApiKeys
ScrapeKeys ==
    ApiKeys \cup
    { "", " " \o ValidKey \o " ", Head1(ValidKey, 63), Head1(ValidKey, 63) \o "g" }

ScrapeQueries ==
    QueryPool \cup {[query |-> "", label |-> "Custom: ...", category |-> "Event Client"]}

InitScrape ==
    /\ pc = "loop"
    /\ apiKey \in ScrapeKeys
    /\ queries \in {<<q>> : q \in ScrapeQueries}
    /\ qi = 1
    /\ clock = 0
    /\ inFlight = {}
    /\ results = << >>
    /\ errors = << >>
    /\ totalResults = 0
    /\ timeline = << >>
    /\ batchResult = NoValue
    /\ leads = << >>
    /\ unique = << >>
    /\ NoCategorizeCall /\ NoTitleCall /\ NoCsvCall /\ NoPage
    /\ NoConfig

NextScrape ==
    \/ CallScrape
    \/ FetchResponds

SpecScrape == InitScrape /\ [][NextScrape]_vars

(***************************************************************************)
(* ScraperConfig (src/src/components/ScraperConfig.tsx): the form of the   *)
(* search queries and handleScrape, with the page's isLoading and leads.   *)
(* batchScrapeLeads is one await of handleScrape, so the call is computed  *)
(* as a whole when it settles.  The form is edited and then handleScrape   *)
(* is called once and runs to its end; what is typed while the call waits  *)
(* does not reach it, since it holds the values of the render it was       *)
(* called in.  handleScrape is called in every state of the form, also in  *)
(* those in which its button is disabled for a blank key or no enabled     *)
(* query, so that its own checks are exercised.                            *)
(***************************************************************************)
\* the largest number of custom queries ever added
MaxCustom == 1

Q(id, label, query, category, enabled) ==
    [id |-> id, label |-> label, query |-> query, category |-> category,
     enabled |-> enabled]

DEFAULT_SEARCH_QUERIES ==
    << Q("catering-owner", "Catering Owners",
         "\"catering owner\" OR \"catering business\" Baltimore OR Maryland site:linkedin.com/in/",
         "Kitchen Tenant", TRUE),
       Q("food-truck", "Food Truck Operators",
         "\"food truck\" owner Baltimore OR Maryland site:linkedin.com/in/",
         "Kitchen Tenant", TRUE),
       Q("ghost-kitchen", "Ghost Kitchen Operators",
         "\"ghost kitchen\" OR \"virtual kitchen\" OR \"cloud kitchen\" Baltimore OR Maryland site:linkedin.com/in/",
         "Kitchen Tenant", FALSE),
       Q("private-chef", "Private Chefs",
         "\"private chef\" OR \"personal chef\" Baltimore OR Maryland site:linkedin.com/in/",
         "Kitchen Tenant", FALSE),
       Q("meal-prep", "Meal Prep Business",
         "\"meal prep\" business owner Baltimore OR Maryland site:linkedin.com/in/",
         "Kitchen Tenant", FALSE),
       Q("food-consultant", "Food Consultants",
         "\"food consultant\" OR \"culinary consultant\" OR \"restaurant consultant\" Baltimore OR Maryland site:linkedin.com/in/",
         "Office Tenant", FALSE),
       Q("cpg-founder", "CPG/Food Brand Founders",
         "\"food brand\" founder OR \"CPG founder\" OR \"food startup\" Baltimore OR Maryland site:linkedin.com/in/",
         "Office Tenant", FALSE),
       Q("event-planner", "Event Planners",
         "\"event planner\" OR \"event coordinator\" Baltimore OR Maryland site:linkedin.com/in/",
         "Event Client", TRUE),
       Q("wedding-planner", "Wedding Planners",
         "\"wedding planner\" OR \"wedding coordinator\" Baltimore OR Maryland site:linkedin.com/in/",
         "Event Client", FALSE) >>

\* CategoryOptions offering every member of the type LeadCategory
CategoryOptionsOfLeadCategory ==
    {"Kitchen Tenant", "Office Tenant", "Event Client", "Uncategorized"}

\* the <option> values of the category select of a custom query
CategoryOptions == {"Kitchen Tenant", "Office Tenant", "Event Client"}

\* query.id.startsWith('custom-')
StartsWith(s, prefix) ==
    Len(s) >= Len(prefix) /\ SubSeq(s, 1, Len(prefix)) = prefix

\* customQuery.slice(0, 30)
Slice30(s) == IF Len(s) > 30 THEN SubSeq(s, 1, 30) ELSE s

\* the newQuery of addCustomQuery; now is the reading of Date.now()
NewQuery(text, category, now) ==
    Q("custom-" \o ToString(now),
      "Custom: " \o Slice30(text) \o "...",
      IF Includes(text, "site:linkedin.com") THEN text
      ELSE text \o " site:linkedin.com/in/",
      category, TRUE)

\* prev.map(q => q.id === id ? { ...q, enabled: !q.enabled } : q)
Toggled(prev, id) ==
    [i \in 1..Len(prev) |->
        IF prev[i].id = id THEN [prev[i] EXCEPT !.enabled = ~prev[i].enabled]
        ELSE prev[i]]

\* EnabledQueries without the filter
AllQueries(qs) == qs

\* searchQueries.filter(q => q.enabled)
EnabledQueries(qs) == SelectSeq(qs, LAMBDA q : q.enabled)

\* enabledQueries.map(q => ({ query, label, category }))
BatchArgument(qs) ==
    [i \in 1..Len(qs) |->
        [query |-> qs[i].query, label |-> qs[i].label, category |-> qs[i].category]]

\* a profile the scorer finds no keyword in
AnnRoe ==
    [title    |-> "Ann Roe | LinkedIn",
     snippet  |-> "",
     link     |-> "https://www.linkedin.com/in/annroe",
     position |-> 1]

\* what categorizeLead returns for the results of the form's searches
CategorizedProfiles == [r \in {AnnRoe, JaneDoe} |-> categorizeLead(r.title, r.snippet)]

\* what the fetch of a query of the form can deliver
FormResponses ==
    { [kind |-> "json", error |-> NoValue, organic_results |-> <<AnnRoe, JaneDoe>>],
      [kind |-> "http", status |-> 429, text |-> "Too Many Requests"] }

\* the loop of batchScrapeLeads from query i on; respOf[i] is what the fetch
\* of query i delivers, and the clock advances by the pacing delay only
RECURSIVE BatchLoop(_, _, _, _, _)
BatchLoop(acc, key, qs, i, respOf) ==
    IF i > Len(qs) THEN acc
    ELSE LET error == ValidationError(key, qs[i].query)
             result == IF error # NoValue THEN Failure(qs[i].query, error)
                       ELSE ScrapeOutcome(respOf[i], CategorizedProfiles, qs[i],
                                          (i - 1) * DelayMs, 0)
         IN BatchLoop(Accumulate(acc, result, qs[i].label), key, qs, i + 1, respOf)

\* batchScrapeLeads as a whole
batchScrapeLeads(key, qs, respOf) ==
    LET acc == BatchLoop([allLeads |-> << >>, errors |-> << >>, totalResults |-> 0],
                         key, qs, 1, respOf)
        uniqueLeads == deduplicateLeads(acc.allLeads)
    IN [success      |-> Len(acc.errors) = 0,
        leads        |-> uniqueLeads,
        errors       |-> acc.errors,
        totalResults |-> acc.totalResults]

\* the keys typed into the form
FormKeys == {" ", ValidKey}

\* the texts typed into the custom query box
CustomTexts == {"\"sous chef\" Baltimore"}

\* the default queries whose checkbox is clicked
ToggledIds == {"catering-owner", "food-truck", "event-planner"}

InitConfig ==
    /\ pc = "form"
    /\ apiKey = ""
    /\ searchQueries = DEFAULT_SEARCH_QUERIES
    /\ customQuery = ""
    /\ customCategory = "Kitchen Tenant"
    /\ configErrors = << >>
    /\ status = ""
    /\ isLoading = FALSE
    /\ clock = 0
    /\ queries = << >>                 \* batchScrapeLeads is not called yet
    /\ batchResult = NoValue
    /\ displayed = << >>
    /\ delivered = NoValue
    /\ leads = << >>
    /\ unique = << >>
    /\ qi = NoValue /\ inFlight = NoValue /\ results = NoValue /\ errors = NoValue
    /\ totalResults = NoValue /\ timeline = NoValue
    /\ NoCategorizeCall /\ NoTitleCall /\ NoCsvCall

\* what no handler of the form touches
formFrame == <<leads, unique, catVars, titleVars, csvVars, qi, inFlight, results,
               errors, totalResults, timeline>>

\* setApiKey(e.target.value)
SetApiKey ==
    /\ pc = "form"
    /\ \E key \in FormKeys : apiKey' = key
    /\ UNCHANGED <<pc, searchQueries, customQuery, customCategory, configErrors,
                   status, isLoading, clock, queries, batchResult, pageVars,
                   formFrame>>

\* toggleQuery
ToggleQuery ==
    /\ pc = "form"
    /\ \E id \in ToggledIds : searchQueries' = Toggled(searchQueries, id)
    /\ UNCHANGED <<pc, apiKey, customQuery, customCategory, configErrors, status,
                   isLoading, clock, queries, batchResult, pageVars,
                   formFrame>>

\* setCustomQuery(e.target.value)
SetCustomQuery ==
    /\ pc = "form"
    /\ \E text \in CustomTexts : customQuery' = text
    /\ UNCHANGED <<pc, apiKey, searchQueries, customCategory, configErrors, status,
                   isLoading, clock, queries, batchResult, pageVars,
                   formFrame>>

\* setCustomCategory(e.target.value as LeadCategory)
SetCustomCategory ==
    /\ pc = "form"
    /\ \E category \in CategoryOptions : customCategory' = category
    /\ UNCHANGED <<pc, apiKey, searchQueries, customQuery, configErrors, status,
                   isLoading, clock, queries, batchResult, pageVars,
                   formFrame>>

\* addCustomQuery; the clock reads one more at every call
AddCustomQuery ==
    /\ pc = "form"
    /\ clock < MaxCustom
    /\ clock' = clock + 1
    /\ IF Trim(customQuery) = ""
       THEN UNCHANGED <<searchQueries, customQuery>>
       ELSE /\ searchQueries' = Append(searchQueries,
                                       NewQuery(customQuery, customCategory, clock))
            /\ customQuery' = ""
    /\ UNCHANGED <<pc, apiKey, customCategory, configErrors, status, isLoading,
                   queries, batchResult, pageVars, formFrame>>

\* removeQuery, offered for the custom queries
RemoveQuery ==
    /\ pc = "form"
    /\ \E i \in 1..Len(searchQueries) :
        /\ StartsWith(searchQueries[i].id, "custom-")
        /\ searchQueries' = SelectSeq(searchQueries,
                                      LAMBDA q : q.id # searchQueries[i].id)
    /\ UNCHANGED <<pc, apiKey, customQuery, customCategory, configErrors, status,
                   isLoading, clock, queries, batchResult, pageVars,
                   formFrame>>

\* handleScrape up to its await, or to the return of a failed check
HandleScrape ==
    /\ pc = "form"
    /\ LET enabledQueries == EnabledQueries(searchQueries)
       IN IF Trim(apiKey) = ""
          THEN /\ configErrors' = <<"Please enter your SerpAPI key">>
               /\ status' = ""
               /\ pc' = "done"
               /\ UNCHANGED <<isLoading, queries>>
          ELSE IF Len(enabledQueries) = 0
          THEN /\ configErrors' = <<"Please enable at least one search query">>
               /\ status' = ""
               /\ pc' = "done"
               /\ UNCHANGED <<isLoading, queries>>
          ELSE /\ configErrors' = << >>
               /\ isLoading' = TRUE
               /\ status' = "Scraping " \o ToString(Len(enabledQueries)) \o " queries..."
               /\ queries' = BatchArgument(enabledQueries)
               /\ pc' = "batch"
    /\ UNCHANGED <<apiKey, searchQueries, customQuery, customCategory, clock,
                   batchResult, pageVars, formFrame>>

\* batchScrapeLeads returns: the rest of the try block, then finally.  The
\* first query is answered with `first`, every other one with `rest`.
BatchReturns ==
    /\ pc = "batch"
    /\ \E first \in FormResponses, rest \in FormResponses :
        LET respOf == [i \in 1..Len(queries) |-> IF i = 1 THEN first ELSE rest]
        IN \E result \in {batchScrapeLeads(apiKey, queries, respOf)} :
           /\ configErrors' = IF Len(result.errors) > 0 THEN result.errors
                              ELSE configErrors
           /\ IF Len(result.leads) > 0
              THEN /\ status' = "Found " \o ToString(Len(result.leads)) \o " unique leads"
                   /\ displayed' = PageMerge(displayed, result.leads)
                   /\ UNCHANGED delivered
              ELSE /\ status' = IF Len(result.errors) = 0
                                THEN "No leads found. Try adjusting your search queries."
                                ELSE status
                   /\ UNCHANGED pageVars
    /\ isLoading' = FALSE
    /\ pc' = "done"
    /\ UNCHANGED <<apiKey, searchQueries, customQuery, customCategory, clock,
                   queries, batchResult, formFrame>>

\* batchScrapeLeads throws: catch, then finally
BatchThrows ==
    /\ pc = "batch"
    /\ configErrors' = <<"Failed to fetch">>
    /\ isLoading' = FALSE
    /\ pc' = "done"
    /\ UNCHANGED <<apiKey, searchQueries, customQuery, customCategory, status, clock,
                   queries, batchResult, pageVars, formFrame>>

NextConfig ==
    \/ SetApiKey
    \/ ToggleQuery
    \/ SetCustomQuery
    \/ SetCustomCategory
    \/ AddCustomQuery
    \/ RemoveQuery
    \/ HandleScrape
    \/ BatchReturns
    \/ BatchThrows

SpecConfig == InitConfig /\ [][NextConfig]_vars

\* the awaited call settles
FairConfig == WF_vars(BatchThrows \/ BatchReturns)

SpecConfigFair == SpecConfig /\ FairConfig

(***************************************************************************)
(* Properties of the deduplicator.                                         *)
(***************************************************************************)
\* the normalized form of each URL of UrlPool: lower case, then exactly one
\* trailing "/" removed
NormalForm ==
    [u \in UrlPool |->
        CASE u = "x/"  -> "x"
          [] u = "X"   -> "x"
          [] u = "x//" -> "x/"
          [] u = "y"   -> "y"]

Rank(c) == CASE c = "High" -> 3 [] c = "Medium" -> 2 [] c = "Low" -> 1

\* the positions of the input leads whose URL has the normal form k
PositionsOf(k) == {i \in 1..Len(leads) : NormalForm[leads[i].profileUrl] = k}

\* the first position among those of key k that carries the highest confidence
FirstBest(k) ==
    Least({i \in PositionsOf(k) :
              \A j \in PositionsOf(k) : Rank(leads[j].confidence) <= Rank(leads[i].confidence)})

\* C1: for every normalized URL of the input, the lead deduplicateLeads keeps
\* is the first lead in input order whose confidence is the highest among the
\* input leads with that normalized URL (a later lead replaces the stored one
\* only when its confidence is strictly higher).
C1_KeepsFirstOfHighestConfidence ==
    pc = "deduped" =>
        \A i \in 1..Len(leads) :
            LET k == NormalForm[leads[i].profileUrl]
            IN /\ \E j \in 1..Len(unique) : unique[j] = leads[FirstBest(k)]
               /\ \A j \in 1..Len(unique) :
                    NormalForm[unique[j].profileUrl] = k => unique[j] = leads[FirstBest(k)]

\* a key whose first lead is Low and which is followed by two High leads
C1_Witness ==
    /\ pc = "deduped"
    /\ Len(leads) = 3
    /\ NormalForm[leads[1].profileUrl] = NormalForm[leads[2].profileUrl]
    /\ NormalForm[leads[2].profileUrl] = NormalForm[leads[3].profileUrl]
    /\ leads[1].confidence = "Low"
    /\ leads[2].confidence = "High"
    /\ leads[3].confidence = "High"
    /\ unique = <<leads[2]>>

\* C2: the set of normalized URLs of the output equals that of the input, and
\* each normalized URL occurs exactly once in the output; "x/" and "X"
\* collapse to one entry, "x//" and "x/" stay two entries.
C2_OneLeadPerNormalizedUrl ==
    pc = "deduped" =>
        /\ {NormalForm[unique[j].profileUrl] : j \in 1..Len(unique)}
             = {NormalForm[leads[i].profileUrl] : i \in 1..Len(leads)}
        /\ \A j1, j2 \in 1..Len(unique) :
             NormalForm[unique[j1].profileUrl] = NormalForm[unique[j2].profileUrl] => j1 = j2

\* the input holds "x/", "X" and "x//": two entries remain
C2_Witness ==
    /\ pc = "deduped"
    /\ {leads[i].profileUrl : i \in 1..Len(leads)} = {"x/", "X", "x//"}
    /\ Len(unique) = 2

\* the position at which the key of an output lead was first seen in the input
FirstSeen(l) == Least(PositionsOf(NormalForm[l.profileUrl]))

\* C3: the output is ordered by the first appearance of each normalized URL in
\* the input; a replacement by a later, higher-confidence lead takes the
\* position of the first-seen lead.
C3_FirstSeenOrder ==
    pc = "deduped" =>
        \A j1, j2 \in 1..Len(unique) :
            j1 < j2 => FirstSeen(unique[j1]) < FirstSeen(unique[j2])

\* a key seen first, another key second, and the first key replaced third
C3_Witness ==
    /\ pc = "deduped"
    /\ Len(leads) = 3
    /\ NormalForm[leads[1].profileUrl] = NormalForm[leads[3].profileUrl]
    /\ NormalForm[leads[1].profileUrl] # NormalForm[leads[2].profileUrl]
    /\ Rank(leads[3].confidence) > Rank(leads[1].confidence)
    /\ unique = <<leads[3], leads[2]>>

(***************************************************************************)
(* Properties of the category scorer and the lead builder.                 *)
(***************************************************************************)
\* the lower-cased "title snippet" text of the candidate
LoweredText == ToLowerCase(title \o " " \o snippet)

\* the largest element of a non-empty set of numbers
Greatest(S) == CHOOSE i \in S : \A j \in S : j <= i

\* the largest score of a real category
TopScoreOf(sc) == Greatest({sc[c] : c \in RealCategories})

\* the next score in the ranking: the largest score once one category that
\* holds the top score is set aside
SecondScoreOf(sc) ==
    LET first == CHOOSE c \in RealCategories : sc[c] = TopScoreOf(sc)
    IN Greatest({sc[c] : c \in RealCategories \ {first}})

\* the confidence the decision table gives a non-zero top score
TableConfidence(top, second) ==
    IF top >= 15 /\ 2 * top > 3 * second THEN "High"
    ELSE IF top >= 8 THEN "Medium"
    ELSE "Low"

\* C4: categorizeLead applies the decision table in order to the final scores:
\* top score 0 gives (Uncategorized, Low); else top >= 15 and top > 1.5 *
\* second gives High; else top >= 8 gives Medium; else Low; the returned
\* category holds the top score, never a score below another real category's.
C4_DecisionTable ==
    pc = "classified" =>
        LET top == TopScoreOf(scores)
            second == SecondScoreOf(scores)
        IN /\ top = 0 => catResult.category = "Uncategorized" /\ catResult.confidence = "Low"
           /\ top > 0 =>
                /\ catResult.category \in RealCategories
                /\ scores[catResult.category] = top
                /\ catResult.confidence = TableConfidence(top, second)
           /\ \A c \in RealCategories : scores[c] <= scores[catResult.category]

\* a top score of at least 15 that does not dominate the runner-up
C4_Witness ==
    /\ pc = "classified"
    /\ TopScoreOf(scores) >= 15
    /\ 2 * TopScoreOf(scores) <= 3 * SecondScoreOf(scores)
    /\ catResult.confidence = "Medium"

\* the number of keyword entries of a group that occur in the text
EntriesFound(text, group) ==
    Cardinality({k \in 1..Len(group.keywords) : Includes(text, group.keywords[k])})

\* the sum of f[1] .. f[n]
RECURSIVE SumTo(_, _)
SumTo(f, n) == IF n = 0 THEN 0 ELSE f[n] + SumTo(f, n - 1)

\* weight times the number of entries found, summed over the category's groups
EntrySum(text, c) ==
    LET groups == CATEGORY_KEYWORDS[c]
    IN SumTo([g \in 1..Len(groups) |-> groups[g].weight * EntriesFound(text, groups[g])],
             Len(groups))

\* C5: before the location bonus, each real category's score is the sum, over
\* every keyword entry of every group of the category, of the group's weight
\* if the lower-cased text contains the entry; occurrences in the text are not
\* counted, overlapping entries of one group each add the weight, and the
\* Uncategorized score stays 0.
C5_ScoreIsSumOverEntries ==
    pc = "scored" =>
        /\ \A c \in RealCategories : scores[c] = EntrySum(LoweredText, c)
        /\ scores["Uncategorized"] = 0

\* "catering" occurs twice in the text and overlaps "catering business"
C5_Witness ==
    /\ pc = "scored"
    /\ title = "Jane Doe - Owner, Baltimore Catering Co | LinkedIn"
    /\ snippet = "catering business"
    /\ scores["Kitchen Tenant"] = 20

\* the location tokens that occur in the text
TokensFound(text) ==
    {i \in 1..Len(LOCATION_KEYWORDS) : Includes(text, LOCATION_KEYWORDS[i])}

\* the position of a category in the declaration order
DeclaredAt(c) == CHOOSE i \in 1..Len(CategoryOrder) : CategoryOrder[i] = c

\* the earliest declared real category among those with the largest score
Leader(sc) ==
    CHOOSE c \in RealCategories :
        /\ sc[c] = TopScoreOf(sc)
        /\ \A d \in RealCategories : sc[d] = TopScoreOf(sc) => DeclaredAt(c) <= DeclaredAt(d)

\* C6: if the text contains a location token, exactly 3 is added to exactly
\* one category, the one with the largest pre-bonus score, ties going to the
\* earlier declared category, and only if that score is greater than 0; the
\* bonus is added once however many tokens occur, and nothing changes when no
\* token occurs.
C6_LocationBonus ==
    [][ pc = "scored" =>
          scores' = IF TokensFound(LoweredText) # {} /\ TopScoreOf(scores) > 0
                    THEN [scores EXCEPT ![Leader(scores)] = @ + 3]
                    ELSE scores ]_vars

\* two tokens occur, Kitchen Tenant and Office Tenant tied at 10 before the bonus
C6_Witness ==
    /\ pc = "boosted"
    /\ Cardinality(TokensFound(LoweredText)) >= 2
    /\ scores["Kitchen Tenant"] = 13
    /\ scores["Office Tenant"] = 10

\* the text contains no keyword entry of any category table
NoKeyword(text) ==
    \A c \in RealCategories :
        \A g \in 1..Len(CATEGORY_KEYWORDS[c]) : EntriesFound(text, CATEGORY_KEYWORDS[c][g]) = 0

\* C7: if the text contains no keyword of any category table, categorizeLead
\* returns (Uncategorized, Low) with every score 0, whether or not the text
\* contains location tokens.
C7_NoKeywordIsUncategorized ==
    (pc = "classified" /\ NoKeyword(LoweredText)) =>
        /\ catResult.category = "Uncategorized"
        /\ catResult.confidence = "Low"
        /\ \A c \in LeadCategory : catResult.scores[c] = 0

\* no keyword, but a location token
C7_Witness ==
    /\ pc = "classified"
    /\ NoKeyword(LoweredText)
    /\ TokensFound(LoweredText) # {}
    /\ catResult.category = "Uncategorized"

\* the text contains a keyword of each of three weight-10 Kitchen Tenant groups
ThreeKitchenGroups(text) ==
    LET groups == CATEGORY_KEYWORDS["Kitchen Tenant"]
    IN Cardinality({g \in 1..Len(groups) :
                       groups[g].weight = 10 /\ EntriesFound(text, groups[g]) > 0}) >= 3

\* the text contains no keyword of Office Tenant or Event Client
NoOtherCategoryKeyword(text) ==
    \A c \in {"Office Tenant", "Event Client"} :
        \A g \in 1..Len(CATEGORY_KEYWORDS[c]) : EntriesFound(text, CATEGORY_KEYWORDS[c][g]) = 0

\* C8 as stated: every text with a keyword of each of three weight-10 Kitchen
\* Tenant groups and a location token gives Kitchen Tenant a score of at least
\* 33 and confidence High.
C8_AsStated ==
    (pc = "classified" /\ ThreeKitchenGroups(LoweredText) /\ TokensFound(LoweredText) # {}) =>
        /\ catResult.scores["Kitchen Tenant"] >= 33
        /\ catResult.confidence = "High"

\* C8 amended: every text with a keyword of each of three weight-10 Kitchen
\* Tenant groups, a location token and no keyword of Office Tenant or Event
\* Client gives Kitchen Tenant a score of at least 33, and categorizeLead
\* returns Kitchen Tenant with confidence High.
C8_HighWhenNoOtherCategory ==
    (/\ pc = "classified"
     /\ ThreeKitchenGroups(LoweredText)
     /\ TokensFound(LoweredText) # {}
     /\ NoOtherCategoryKeyword(LoweredText)) =>
        /\ catResult.scores["Kitchen Tenant"] >= 33
        /\ catResult.category = "Kitchen Tenant"
        /\ catResult.confidence = "High"

\* exactly the boundary: three groups once each plus the bonus
C8_Witness ==
    /\ pc = "classified"
    /\ ThreeKitchenGroups(LoweredText)
    /\ TokensFound(LoweredText) # {}
    /\ NoOtherCategoryKeyword(LoweredText)
    /\ catResult.scores["Kitchen Tenant"] = 33

\* the candidate of the end-to-end example, from a Kitchen Tenant query
IsExample ==
    /\ pc = "built"
    /\ title = "Jane Doe - Owner, Baltimore Catering Co | LinkedIn"
    /\ snippet = "catering owner serving Baltimore weddings"
    /\ queryCategory = "Kitchen Tenant"

\* C9 as stated: the example candidate yields name "Jane Doe", headline
\* "Owner, Baltimore Catering Co", category Kitchen Tenant, confidence High.
C9_AsStated ==
    IsExample =>
        /\ lead.name = "Jane Doe"
        /\ lead.headline = "Owner, Baltimore Catering Co"
        /\ lead.category = "Kitchen Tenant"
        /\ lead.confidence = "High"

\* C9 amended: the example candidate yields name "Jane Doe", headline
\* "Owner, Baltimore Catering Co", category Kitchen Tenant and confidence
\* Medium (Kitchen Tenant scores 10 for "catering" plus the bonus 3).
C9_ExampleIsMedium ==
    IsExample =>
        /\ lead.name = "Jane Doe"
        /\ lead.headline = "Owner, Baltimore Catering Co"
        /\ lead.category = "Kitchen Tenant"
        /\ lead.confidence = "Medium"
        /\ catResult.scores["Kitchen Tenant"] = 13

C9_Witness == IsExample /\ lead.confidence = "Medium"

\* C10: the Lead's category equals the query's declared category if and only
\* if the scorer returned Uncategorized or the two already agree; whenever the
\* scorer returned a real category, the Lead carries the scorer's category
\* and confidence unchanged.
C10_FallbackOnlyWhenUncategorized ==
    pc = "built" =>
        /\ lead.category = queryCategory
             <=> (catResult.category = "Uncategorized" \/ catResult.category = queryCategory)
        /\ catResult.category # "Uncategorized" =>
             /\ lead.category = catResult.category
             /\ lead.confidence = catResult.confidence

\* the scorer's real category differs from the query's declared category
C10_Witness ==
    /\ pc = "built"
    /\ catResult.category = "Event Client"
    /\ queryCategory = "Kitchen Tenant"
    /\ lead.category = "Event Client"
    /\ lead.confidence = "High"

\* C11: a Lead whose category is Uncategorized has confidence Low; a Lead
\* built from a scorer result of Uncategorized has confidence Low whatever
\* category the fallback supplied; a Lead of confidence Medium or High carries
\* the scorer's own real category.
C11_UncategorizedIsLow ==
    pc = "built" =>
        /\ lead.category = "Uncategorized" => lead.confidence = "Low"
        /\ catResult.category = "Uncategorized" => lead.confidence = "Low"
        /\ lead.confidence \in {"Medium", "High"} =>
             /\ catResult.category \in RealCategories
             /\ lead.category = catResult.category

\* the fallback supplied a real category to an Uncategorized result
C11_Witness ==
    /\ pc = "built"
    /\ catResult.category = "Uncategorized"
    /\ queryCategory = "Office Tenant"
    /\ lead.category = "Office Tenant"
    /\ lead.confidence = "Low"

(***************************************************************************)
(* Properties of batchScrapeLeads.                                         *)
(***************************************************************************)
\* C12: within one call of batchScrapeLeads the ids of the leads collected
\* from all its queries, before deduplication, are pairwise different.
C12_IdsUniqueInBatch ==
    \A i, j \in 1..Len(leads) : i # j => leads[i].id # leads[j].id

\* two queries each contributed a lead of index 0, and the second one was
\* built at a later reading of the clock
C12_Witness ==
    /\ pc = "done"
    /\ \E i, j \in 1..Len(leads) :
        /\ i < j
        /\ leads[i].source # leads[j].source
        /\ leads[i].id = "lead-0-0"
        /\ leads[j].id = "lead-500-0"

(***************************************************************************)
(* Properties of the title parser.                                         *)
(***************************************************************************)
\* C13: when the title, with its trailing "| LinkedIn" marker stripped,
\* contains no " - ", extractNameFromTitle returns the stripped text trimmed
\* and extractHeadlineFromTitle returns the empty string.
C13_NoDelimiter ==
    pc = "parsed" /\ ~Includes(StripLinkedInSuffix(title), " - ") =>
        /\ name = Trim(StripLinkedInSuffix(title))
        /\ headline = ""

\* a marker in another case and with blanks around it was stripped, the rest
\* has no delimiter and needed trimming
C13_Witness ==
    /\ pc = "parsed"
    /\ title = " Al|LINKEDIN"
    /\ name = "Al"
    /\ headline = ""

\* the strings A and B of a title "A - B | LinkedIn": every string of at most
\* two pieces
Parts ==
    {""} \cup TitlePieces \cup {p \o q : p \in TitlePieces, q \in TitlePieces}

IsPrefix(p, s) == Len(p) <= Len(s) /\ Head1(s, Len(p)) = p

\* C14 as the claim states it: for all strings A and B, the title
\* "A - B | LinkedIn" is parsed to name = A and headline = B.
C14_AsStated ==
    pc = "parsed" =>
        \A A \in Parts : IsPrefix(A \o " - ", title) =>
            \A B \in Parts :
                title = A \o " - " \o B \o " | LinkedIn" =>
                    name = A /\ headline = B

\* A and B have no blank at either end, A has no " - " and does not end in
\* " -", B is not empty
PlainParts(A, B) ==
    /\ Trim(A) = A
    /\ Trim(B) = B
    /\ B # ""
    /\ ~Includes(A \o " ", " - ")

\* C14: for all strings A and B without leading or trailing whitespace, A
\* containing no " - " and not ending in " -", B not empty, the title
\* "A - B | LinkedIn" is parsed to name = A and headline = B.
C14_PlainPartsRoundTrip ==
    pc = "parsed" =>
        \A A \in Parts : IsPrefix(A \o " - ", title) =>
            \A B \in Parts :
                title = A \o " - " \o B \o " | LinkedIn" /\ PlainParts(A, B) =>
                    name = A /\ headline = B

C14_Witness ==
    /\ pc = "parsed"
    /\ title = "Al - Bo | LinkedIn"
    /\ name = "Al"
    /\ headline = "Bo"

(***************************************************************************)
(* Properties of the CSV serializer.                                       *)
(***************************************************************************)
SpecialChars == {",", Quote, "\n", "\r"}

HasSpecialChar(s) == \E i \in 1..Len(s) : CharAt(s, i) \in SpecialChars

QuotesIn(s) == Cardinality({i \in 1..Len(s) : CharAt(s, i) = Quote})

\* s with every pair of double quotes replaced by one double quote
RECURSIVE Collapse(_)
Collapse(s) ==
    IF Len(s) = 0 THEN ""
    ELSE IF Len(s) >= 2 /\ Head1(s, 2) = Quote \o Quote
         THEN Quote \o Collapse(Tail1(s, 3))
         ELSE Head1(s, 1) \o Collapse(Tail1(s, 2))

\* C15: escapeCSVField wraps the field in double quotes, doubling every
\* double quote inside, exactly when the raw field contains a comma, a double
\* quote, a line feed or a carriage return; any other field is returned
\* unchanged; null and undefined give the empty string; Smith, "Chef"
\* becomes "Smith, ""Chef""".
C15_EscapeField ==
    pc = "escaped" =>
        /\ field \in {Null, Undefined} => escaped = ""
        /\ field \notin {Null, Undefined} /\ ~HasSpecialChar(field) => escaped = field
        /\ field \notin {Null, Undefined} /\ HasSpecialChar(field) =>
             /\ Len(escaped) = Len(field) + QuotesIn(field) + 2
             /\ CharAt(escaped, 1) = Quote
             /\ CharAt(escaped, Len(escaped)) = Quote
             /\ QuotesIn(escaped) = 2 * QuotesIn(field) + 2
             /\ Collapse(SubSeq(escaped, 2, Len(escaped) - 1)) = field
        /\ field = "Smith, \"Chef\"" => escaped = "\"Smith, \"\"Chef\"\"\""

\* the example of the claim
C15_Witness ==
    /\ pc = "escaped"
    /\ field = "Smith, \"Chef\""
    /\ escaped = "\"Smith, \"\"Chef\"\"\""

HeaderLine == "Name,Headline,Category,Confidence,Profile URL,Snippet,Source Query,Scraped At"

\* the escaped form of a field, as C15 describes it
Escaped(v) ==
    IF v \in {Null, Undefined} THEN ""
    ELSE IF HasSpecialChar(v)
         THEN Quote \o Join([i \in 1..Len(v) |->
                                IF CharAt(v, i) = Quote THEN Quote \o Quote
                                ELSE CharAt(v, i)], "") \o Quote
         ELSE v

\* the data row of a lead: its 8 fields in column order, escaped
DataLine(l) ==
    Escaped(l.name) \o "," \o Escaped(l.headline) \o "," \o Escaped(l.category)
    \o "," \o Escaped(l.confidence) \o "," \o Escaped(l.profileUrl) \o ","
    \o Escaped(l.snippet) \o "," \o Escaped(l.source) \o "," \o Escaped(l.scrapedAt)

\* the header line followed by the data lines of ls[1..n], each after a "\n"
RECURSIVE LinesUpTo(_, _)
LinesUpTo(ls, n) ==
    IF n = 0 THEN HeaderLine ELSE LinesUpTo(ls, n - 1) \o "\n" \o DataLine(ls[n])

\* the positions of s holding character c outside a quoted field, that is
\* after an even number of double quotes
Unquoted(s, c) ==
    LET quotes == {j \in 1..Len(s) : CharAt(s, j) = Quote}
    IN {i \in 1..Len(s) :
          CharAt(s, i) = c /\ Cardinality({j \in quotes : j < i}) % 2 = 0}

\* C16: leadsToCSV returns the empty string for an empty list; for n >= 1
\* leads it returns the header row followed by exactly n data rows in input
\* order, each of 8 escaped fields, the rows joined by single line feeds and
\* no line feed at the end.
C16_CsvStructure ==
    pc = "exported" =>
        IF Len(leads) = 0 THEN csv = ""
        ELSE /\ csv = LinesUpTo(leads, Len(leads))
             /\ Cardinality(Unquoted(csv, "\n")) = Len(leads)
             /\ Cardinality(Unquoted(csv, ",")) = 7 * (Len(leads) + 1)
             /\ CharAt(csv, Len(csv)) # "\n"

\* a list whose fields hold commas, quotes, line breaks and an undefined
\* snippet was exported
C16_Witness ==
    /\ pc = "exported"
    /\ Len(leads) = 3
    /\ leads[1].name = "Smith, \"Chef\""
    /\ leads[2].headline = "Chef,\nOwner"
    /\ leads[3].name = "Ann Roe"
    /\ Len(csv) > Len(HeaderLine)

(***************************************************************************)
(* Properties of the page.                                                 *)
(***************************************************************************)
\* the highest rank of confidence among the leads of ls with normalized URL k
BestRank(ls, k) ==
    Greatest({Rank(ls[i].confidence) :
                i \in {j \in 1..Len(ls) : NormalizeUrl(ls[j].profileUrl) = k}})

\* C17 as the claim states it: for every normalized URL delivered since the
\* last clear, the displayed list holds a lead of that URL whose confidence
\* is the highest among all leads delivered with that URL.
C17_AsStated ==
    \A d \in 1..Len(delivered) :
        LET k == NormalizeUrl(delivered[d].profileUrl)
        IN \E i \in 1..Len(displayed) :
            /\ NormalizeUrl(displayed[i].profileUrl) = k
            /\ Rank(displayed[i].confidence) = BestRank(delivered, k)

\* C18: within one batch the request of a query is started only after the
\* call of the previous query has returned and DelayMs milliseconds have
\* passed since; at most one request is in flight at any time, and requests
\* are issued in the order of the queries list.
C18_OneAtATimeWithPacing ==
    /\ Cardinality(inFlight) <= 1
    /\ \A k \in 1..Len(timeline) :
        timeline[k].event = "request" =>
            /\ \A j \in 1..(k - 1) : timeline[j].query < timeline[k].query
            /\ \A earlier \in 1..(timeline[k].query - 1) :
                \E j \in 1..(k - 1) :
                    /\ timeline[j].event = "return"
                    /\ timeline[j].query = earlier
                    /\ timeline[j].at + DelayMs <= timeline[k].at

\* the request of the second query went out exactly DelayMs after the first
\* call returned from its own request
C18_Witness ==
    /\ Len(timeline) >= 3
    /\ timeline[1] = Event("request", 1, 0)
    /\ timeline[2] = Event("return", 1, 1)
    /\ timeline[3] = Event("request", 2, 501)
    /\ inFlight = {2}

\* the leads of the successful calls among results[1..n], in order
RECURSIVE SuccessfulLeads(_)
SuccessfulLeads(n) ==
    IF n = 0 THEN << >>
    ELSE SuccessfulLeads(n - 1) \o
         (IF results[n].success THEN results[n].leads ELSE << >>)

\* the number of results reported by the successful calls among results[1..n]
RECURSIVE SuccessfulTotal(_)
SuccessfulTotal(n) ==
    IF n = 0 THEN 0
    ELSE SuccessfulTotal(n - 1) +
         (IF results[n].success THEN results[n].totalResults ELSE 0)

\* the indices of the failed calls, in order
FailedCalls == SelectSeq([i \in 1..Len(results) |-> i], LAMBDA i : ~results[i].success)

\* C19: a query whose scrape fails contributes no lead and nothing to
\* totalResults, adds exactly one entry to errors, its label followed by
\* ": " and the error, and the remaining queries are still attempted; the
\* batch succeeds exactly when no query failed, and its leads are the
\* deduplicated concatenation of the leads of the successful queries in
\* query order.
C19_FailureIsolation ==
    pc = "done" =>
        /\ Len(results) = Len(queries)
        /\ \A i \in 1..Len(results) :
            ~results[i].success => results[i].leads = << >> /\ results[i].totalResults = 0
        /\ leads = SuccessfulLeads(Len(results))
        /\ batchResult.totalResults = SuccessfulTotal(Len(results))
        /\ Len(batchResult.errors) = Len(FailedCalls)
        /\ \A k \in 1..Len(FailedCalls) :
            batchResult.errors[k] =
                queries[FailedCalls[k]].label \o ": " \o results[FailedCalls[k]].error
        /\ batchResult.success <=> (Len(FailedCalls) = 0)
        /\ batchResult.leads = deduplicateLeads(SuccessfulLeads(Len(results)))

\* the first query failed, the second one was still attempted and delivered
\* leads
C19_Witness ==
    /\ pc = "done"
    /\ Len(queries) = 2
    /\ ~results[1].success
    /\ results[2].success
    /\ Len(results[2].leads) = 2
    /\ batchResult.success = FALSE
    /\ batchResult.errors = <<"Catering Owners: Rate limit exceeded. Please wait and try again.">>
    /\ Len(batchResult.leads) = 1
    /\ batchResult.totalResults = 2

(***************************************************************************)
(* The fallback of the lead builder on results of low confidence.          *)
(***************************************************************************)
\* C20 as the claim states it: whenever the scorer's confidence is Low, the
\* Lead carries the query's declared category.
C20_AsStated ==
    pc = "built" /\ catResult.confidence = "Low" => lead.category = queryCategory

\* C20: whenever the scorer's confidence is Low, the Lead carries the query's
\* declared category if the scorer returned Uncategorized, and otherwise
\* keeps the scorer's own category, with confidence Low.
C20_LowFallsBackOnlyWhenUncategorized ==
    pc = "built" /\ catResult.confidence = "Low" =>
        IF catResult.category = "Uncategorized"
        THEN lead.category = queryCategory
        ELSE lead.category = catResult.category /\ lead.confidence = "Low"

\* a real category of low confidence was kept against the query's category
C20_Witness ==
    /\ pc = "built"
    /\ catResult.confidence = "Low"
    /\ catResult.category = "Office Tenant"
    /\ queryCategory = "Kitchen Tenant"
    /\ lead.category = "Office Tenant"
    /\ lead.confidence = "Low"

(***************************************************************************)
(* Properties of scrapeLinkedInLeads.                                      *)
(***************************************************************************)
\* s is empty or holds whitespace only
Blank(s) == \A i \in 1..Len(s) : IsSpace(CharAt(s, i))

\* s is a string of 64 hex digits
IsHex64(s) == Len(s) = 64 /\ \A i \in 1..64 : CharAt(s, i) \in HexDigits

\* a request was issued for the call of index i
Requested(i) ==
    \E k \in 1..Len(timeline) : timeline[k].event = "request" /\ timeline[k].query = i

\* the call of index i failed with the given error and issued no request
FailedUnrequested(i, error) ==
    /\ ~results[i].success
    /\ results[i].error = error
    /\ ~Requested(i)

\* the shape of every result: a failure has no leads, no results and an
\* error; a success counts its leads, all of them profile URLs
ResultShape ==
    \A i \in 1..Len(results) :
        /\ ~results[i].success =>
             /\ results[i].leads = << >>
             /\ results[i].totalResults = 0
             /\ results[i].error \notin {NoValue, ""}
        /\ results[i].success =>
             /\ results[i].totalResults = Len(results[i].leads)
             /\ \A j \in 1..Len(results[i].leads) :
                  Includes(results[i].leads[j].profileUrl, "linkedin.com/in/")

\* C21 as the claim states it: the shape of the results, and a blank key, a
\* key that is not a string of 64 hex digits, or a blank query (in that
\* order) fail without a network request.
C21_AsStated ==
    /\ ResultShape
    /\ \A i \in 1..Len(results) :
        IF Blank(apiKey) THEN FailedUnrequested(i, "API key is required")
        ELSE IF ~IsHex64(apiKey)
        THEN FailedUnrequested(i,
               "Invalid API key format. SerpAPI keys are 64 character hex strings.")
        ELSE Blank(queries[i].query) =>
               FailedUnrequested(i, "Search query is required")

\* C21: the shape of the results, and a blank key, a key that is not a
\* string of 64 hex digits once leading and trailing whitespace is removed,
\* or a blank query (in that order) fail without a network request.
C21_ShapeAndValidation ==
    /\ ResultShape
    /\ \A i \in 1..Len(results) :
        IF Blank(apiKey) THEN FailedUnrequested(i, "API key is required")
        ELSE IF ~IsHex64(Trim(apiKey))
        THEN FailedUnrequested(i,
               "Invalid API key format. SerpAPI keys are 64 character hex strings.")
        ELSE Blank(queries[i].query) =>
               FailedUnrequested(i, "Search query is required")

\* a key of 63 hex digits with a blank query: the key is reported, and no
\* request went out
C21_Witness ==
    /\ pc = "returned"
    /\ apiKey = Head1(ValidKey, 63)
    /\ Blank(queries[1].query)
    /\ results[1].error = "Invalid API key format. SerpAPI keys are 64 character hex strings."
    /\ timeline = <<Event("return", 1, 0)>>

(***************************************************************************)
(* The title parser on titles with several separators.                     *)
(***************************************************************************)
\* the positions of s at which the separator " - " starts
SeparatorsIn(s) == {i \in 1..(Len(s) - 2) : SubSeq(s, i, i + 2) = " - "}

\* C22: when the suffix-stripped title contains " - ", the name is the
\* trimmed text before the first " - " and the headline is the trimmed text
\* after it, later separators included: only the first separator splits.
C22_FirstSeparatorSplits ==
    pc = "parsed" /\ SeparatorsIn(StripLinkedInSuffix(title)) # {} =>
        LET stripped == StripLinkedInSuffix(title)
            first == Least(SeparatorsIn(stripped))
        IN /\ name = Trim(SubSeq(stripped, 1, first - 1))
           /\ headline = Trim(SubSeq(stripped, first + 3, Len(stripped)))

\* two separators: the second one stays in the headline
C22_Witness ==
    /\ pc = "parsed"
    /\ title = "Lee Fox - Wedding Planner - Al | LinkedIn"
    /\ Cardinality(SeparatorsIn(StripLinkedInSuffix(title))) = 2
    /\ name = "Lee Fox"
    /\ headline = "Wedding Planner - Al"

(***************************************************************************)
(* Ties in the final scores of categorizeLead.                             *)
(***************************************************************************)
\* the real categories holding the largest final score
TopCategories(sc) == {c \in RealCategories : sc[c] = TopScoreOf(sc)}

\* C23: when two or more real categories share the highest final score and
\* that score is greater than 0, the returned category is the earliest
\* declared of them and the returned confidence is not High.
C23_TieGoesToEarliestDeclared ==
    pc = "classified" /\ TopScoreOf(scores) > 0
                      /\ Cardinality(TopCategories(scores)) >= 2 =>
        /\ catResult.category \in TopCategories(scores)
        /\ \A d \in TopCategories(scores) :
             DeclaredAt(catResult.category) <= DeclaredAt(d)
        /\ catResult.confidence # "High"

\* Kitchen Tenant and Event Client tie at 20, a score that would be High if
\* it dominated; the earlier declared Kitchen Tenant is returned, as Medium
C23_Witness ==
    /\ pc = "classified"
    /\ TopScoreOf(scores) = 20
    /\ TopCategories(scores) = {"Kitchen Tenant", "Event Client"}
    /\ catResult.category = "Kitchen Tenant"
    /\ catResult.confidence = "Medium"

(***************************************************************************)
(* Frame and algebra of deduplicateLeads.                                  *)
(***************************************************************************)
\* C24: deduplicateLeads only selects: every lead of its output is one of the
\* input leads with all fields unchanged, profileUrl in its original
\* spelling, and the input list is the same after the call as before.
C24_OnlySelects ==
    [][pc = "collect" /\ pc' = "deduped" =>
         /\ leads' = leads
         /\ \A i \in 1..Len(unique') : \E j \in 1..Len(leads) : unique'[i] = leads[j]]_vars

\* a duplicate was dropped and a kept lead has a URL that is not in normal
\* form
C24_Witness ==
    /\ pc = "deduped"
    /\ Len(unique) < Len(leads)
    /\ \E i \in 1..Len(unique) :
        /\ unique[i].profileUrl = "X"
        /\ NormalizeUrl(unique[i].profileUrl) # unique[i].profileUrl

\* no two leads of ls have the same normalized URL
NoDuplicateUrls(ls) ==
    \A i, j \in 1..Len(ls) :
        i # j => NormalizeUrl(ls[i].profileUrl) # NormalizeUrl(ls[j].profileUrl)

\* C25: after any sequence of handleLeadsScraped and clearLeads calls the
\* page's leads hold at most one lead per normalized URL, and so does every
\* list handed to an export; after clearLeads, until the next delivery, the
\* list is empty.
C25_DisplayedStaysDeduplicated ==
    /\ NoDuplicateUrls(displayed)
    /\ NoDuplicateUrls(leads)
    /\ delivered = << >> => displayed = << >>

\* the same URL was delivered twice under different spellings, one lead of
\* it is displayed, and the whole list was exported
C25_Witness ==
    /\ Len(delivered) = 3
    /\ Len(displayed) = 2
    /\ \E i, j \in 1..Len(delivered) :
        /\ i # j
        /\ delivered[i].profileUrl = "x/"
        /\ delivered[j].profileUrl = "X"
    /\ Len(leads) = 2


\* C28: deduplicateLeads is idempotent: applied to its own output it returns
\* that output, the same leads in the same order.
C28_Idempotent ==
    pc = "deduped" => deduplicateLeads(unique) = unique

\* the first pass dropped a duplicate and kept two leads, the second of them
\* under a spelling that differs from its normalized URL
C28_Witness ==
    /\ pc = "deduped"
    /\ Len(leads) > Len(unique)
    /\ Len(unique) = 2
    /\ unique[2].profileUrl = "X"
    /\ deduplicateLeads(unique) = unique

\* the normalized URLs of ls, each with the confidences of its leads
Summary(ls) ==
    {<<NormalizeUrl(ls[i].profileUrl), ls[i].confidence>> : i \in 1..Len(ls)}

\* C29: for every permutation P of the input, deduplicateLeads(P) has the
\* same normalized URLs as deduplicateLeads of the input, one lead for each,
\* and for each URL the same confidence.
C29_SummaryIsOrderIndependent ==
    pc = "permuted" =>
        LET other == deduplicateLeads(leads)
        IN /\ Summary(other) = Summary(unique)
           /\ Len(other) = Len(unique)

\* rearranging the input changed the order of the output and which of two
\* duplicates of equal confidence is kept, but not the summary
C29_Witness ==
    /\ pc = "permuted"
    /\ Len(unique) = 2
    /\ LET other == deduplicateLeads(leads)
       IN /\ Summary(other) = Summary(unique)
          /\ NormalizeUrl(other[1].profileUrl) = NormalizeUrl(unique[2].profileUrl)
          /\ NormalizeUrl(other[2].profileUrl) = NormalizeUrl(unique[1].profileUrl)
          /\ other[2].confidence = unique[1].confidence
          /\ other[2].id # unique[1].id

\* C27: with the shipped keyword table (every weight at least 5), a text that
\* contains a category keyword and a location token gets a top score of at
\* least 8 and is never classified Low; a real category comes with confidence
\* Low only for a top score of 5, 6 or 7 and a text without location token.
C27_KeywordAndLocationNeverLow ==
    /\ \A c \in RealCategories :
        \A g \in 1..Len(CATEGORY_KEYWORDS[c]) : CATEGORY_KEYWORDS[c][g].weight >= 5
    /\ pc \in {"classified", "built"} =>
        /\ (~NoKeyword(LoweredText) /\ TokensFound(LoweredText) # {}) =>
              /\ TopScoreOf(catResult.scores) >= 8
              /\ catResult.confidence # "Low"
        /\ (catResult.confidence = "Low" /\ catResult.category # "Uncategorized") =>
              /\ TopScoreOf(catResult.scores) \in {5, 6, 7}
              /\ TokensFound(LoweredText) = {}

\* the lightest keyword and a location token: the top score is exactly 8
C27_Witness ==
    /\ pc = "classified"
    /\ title = "Ann Roe"
    /\ ~NoKeyword(LoweredText)
    /\ TokensFound(LoweredText) # {}
    /\ TopScoreOf(catResult.scores) = 8
    /\ catResult.category = "Office Tenant"
    /\ catResult.confidence = "Medium"

(***************************************************************************)
(* Properties of the form: query categories and the loading flag.          *)
(***************************************************************************)
\* C26: in every state reached through the form (default queries, custom
\* queries added by addCustomQuery, scraped by handleScrape) every query's
\* declared category is Kitchen Tenant, Office Tenant or Event Client, and
\* no lead handed to the page has category Uncategorized.
C26_NoLeadUncategorized ==
    /\ \A i \in 1..Len(searchQueries) : searchQueries[i].category \in RealCategories
    /\ \A i \in 1..Len(displayed) : displayed[i].category # "Uncategorized"

\* a profile the scorer leaves Uncategorized was scraped by a custom query
\* declared Office Tenant and is displayed with that category
C26_Witness ==
    /\ pc = "done"
    /\ CategorizedProfiles[AnnRoe].category = "Uncategorized"
    /\ \E i \in 1..Len(displayed) :
        /\ displayed[i].profileUrl = AnnRoe.link
        /\ StartsWith(displayed[i].source, "Custom: ")
        /\ displayed[i].category = "Office Tenant"
        /\ displayed[i].confidence = "Low"


\* the call at hand fails one of handleScrape's own checks
ChecksFail ==
    \/ Trim(apiKey) = ""
    \/ \A i \in 1..Len(searchQueries) : ~searchQueries[i].enabled

\* q is handed on as an element of the queries argument for an enabled query
PassedForEnabled(q) ==
    \E j \in 1..Len(searchQueries) :
        /\ searchQueries[j].enabled
        /\ q = [query    |-> searchQueries[j].query,
                label    |-> searchQueries[j].label,
                category |-> searchQueries[j].category]

\* C30: a handleScrape call that fails its own checks (blank key, no enabled
\* query) ends without setting isLoading and without a batchScrapeLeads
\* call; a call that sets isLoading passes only enabled queries
\* to batchScrapeLeads; isLoading is true only while that call is awaited,
\* is false again when it returns or throws, and that happens eventually.
C30_LoadingFlag ==
    /\ [][pc = "form" /\ pc' # "form" /\ ChecksFail =>
            pc' = "done" /\ isLoading' = FALSE /\ queries' = queries]_vars
    /\ [][pc = "form" /\ isLoading' = TRUE =>
            /\ pc' = "batch"
            /\ Len(queries') > 0
            /\ \A i \in 1..Len(queries') : PassedForEnabled(queries'[i])]_vars
    /\ [][pc = "batch" /\ pc' # "batch" => isLoading' = FALSE]_vars
    /\ [](isLoading = TRUE => pc = "batch")
    /\ (isLoading = TRUE) ~> (isLoading = FALSE)

\* batchScrapeLeads was called with fewer queries than the form lists, it
\* threw, and the flag is down again
C30_Witness ==
    /\ pc = "done"
    /\ isLoading = FALSE
    /\ configErrors = <<"Failed to fetch">>
    /\ status # ""
    /\ Len(queries) > 0
    /\ Len(queries) < Len(searchQueries)

====
